---- MODULE Spec2Model ----
(***************************************************************************)
(* A model of the ClawCraft voxel world engine.                            *)
(*                                                                         *)
(* Two consumption modes share the engine:                                 *)
(*   - discrete mode: the Convex HTTP actions of convex/http.ts, which     *)
(*     read and write the "chunks" table through the mutations of          *)
(*     convex/chunks.ts (each mutation is one serializable transaction,    *)
(*     an HTTP action is NOT a transaction: it is a sequence of them);     *)
(*   - continuous mode: the in-process World of the world package and the  *)
(*     GameServer of packages/server.                                      *)
(*                                                                         *)
(* A chunk holds 16*16*16 blocks.  The model keeps, of every chunk, the    *)
(* blocks at the positions of a bounded window of the world; a chunk is    *)
(* read and written as a whole exactly as in the code.                     *)
(***************************************************************************)
EXTENDS Integers, Sequences, FiniteSets, TLC

VARIABLES
  mode,           \* which deployment runs: "discrete" (Convex) or "continuous"
  noise,          \* the values of the seeded noise sources (fixed by the seed)
  db,             \* Convex table "chunks": a sequence of rows, _id = index
  req,            \* discrete mode: the HTTP actions in flight, per client
  chunks,         \* continuous mode: World.chunks (key -> Chunk)
  modifiedChunks, \* continuous mode: World.modifiedChunks (set of keys)
  disk,           \* continuous mode: the files written by World.saveWorld
  last,           \* continuous mode: the last operation handled and its result
  steps,          \* continuous mode: the number of operations handled so far
  flush,          \* continuous mode: the auto-save timer and the flushes made
  generated,      \* generators alone: the chunks generated so far, in order
  sim,            \* continuous mode: the tick loop and the agents it moves
  phys            \* physics alone: one agent, its numbers and the blocks around

vars == <<mode, noise, db, req, chunks, modifiedChunks, disk, last, steps, flush,
          generated, sim, phys>>

envVars == <<mode, noise, generated, sim, phys>>
discVars == <<db, req>>
contVars == <<chunks, modifiedChunks, disk, last, steps, flush>>

-----------------------------------------------------------------------------
(* Constants of the program *)

CHUNK_SIZE == 16

AIR == 0
STONE == 1
DIRT == 2
GRASS == 3
WOOD == 4
LEAVES == 5
WATER == 6
SAND == 7
BEDROCK == 8
FLOWER_RED == 9
FLOWER_YELLOW == 10
TALL_GRASS == 11

\* DEFAULT_CONFIG of both generators
seaLevel == 64
baseHeight == 64
platformRadius == 8

\* batch cap of /agent/action batch_place and batch_break
BATCH_CAP == 100

-----------------------------------------------------------------------------
(* JavaScript arithmetic on integers *)

\* JS a % b: the remainder takes the sign of the dividend
JsMod(a, b) == IF a >= 0 THEN a % b ELSE -((-a) % b)

\* Math.floor(a / b) for integers a and b > 0
FloorDiv(a, b) == a \div b

Abs(a) == IF a < 0 THEN -a ELSE a

\* Math.ceil(a / b) for integers a >= 0 and b > 0
CeilDiv(a, b) == (a + b - 1) \div b

-----------------------------------------------------------------------------
(* Coordinate model: chunk.ts of the world package, and the same arithmetic *)
(* inlined in convex/http.ts                                                *)

coordToIndex(x, y, z) == x + y * CHUNK_SIZE + z * CHUNK_SIZE * CHUNK_SIZE

indexToCoord(index) ==
  [x |-> index % CHUNK_SIZE,
   y |-> (index \div CHUNK_SIZE) % CHUNK_SIZE,
   z |-> index \div (CHUNK_SIZE * CHUNK_SIZE)]

\* worldToLocal without the second remainder
worldToLocal_Remainder(x, y, z) ==
  [x |-> JsMod(x, CHUNK_SIZE), y |-> JsMod(y, CHUNK_SIZE), z |-> JsMod(z, CHUNK_SIZE)]

worldToChunk(x, y, z) ==
  [cx |-> FloorDiv(x, CHUNK_SIZE),
   cy |-> FloorDiv(y, CHUNK_SIZE),
   cz |-> FloorDiv(z, CHUNK_SIZE)]

worldToLocal(x, y, z) ==
  [x |-> JsMod(JsMod(x, CHUNK_SIZE) + CHUNK_SIZE, CHUNK_SIZE),
   y |-> JsMod(JsMod(y, CHUNK_SIZE) + CHUNK_SIZE, CHUNK_SIZE),
   z |-> JsMod(JsMod(z, CHUNK_SIZE) + CHUNK_SIZE, CHUNK_SIZE)]

(* Strings are sequences of one-character strings, so that formatting and  *)
(* parsing a key are computed, not assumed inverse to each other.          *)

Digits == <<"0", "1", "2", "3", "4", "5", "6", "7", "8", "9">>

RECURSIVE NatToChars(_)
NatToChars(n) ==
  IF n < 10 THEN <<Digits[n + 1]>>
  ELSE NatToChars(n \div 10) \o <<Digits[(n % 10) + 1]>>

\* `${n}` for an integer n
NumberToString(n) == IF n < 0 THEN <<"-">> \o NatToChars(-n) ELSE NatToChars(n)

\* `${cx},${cy},${cz}`
chunkKey(coord) ==
  NumberToString(coord.cx) \o <<",">> \o NumberToString(coord.cy) \o <<",">>
    \o NumberToString(coord.cz)

\* key.split(","): the pieces between commas
RECURSIVE SplitFrom(_, _, _)
SplitFrom(s, i, cur) ==
  IF i > Len(s) THEN <<cur>>
  ELSE IF s[i] = "," THEN <<cur>> \o SplitFrom(s, i + 1, <<>>)
  ELSE SplitFrom(s, i + 1, Append(cur, s[i]))

Split(s) == SplitFrom(s, 1, <<>>)

DigitValue(c) == CHOOSE d \in 0..9 : Digits[d + 1] = c

RECURSIVE CharsToNat(_, _)
CharsToNat(s, acc) ==
  IF s = <<>> THEN acc ELSE CharsToNat(Tail(s), acc * 10 + DigitValue(Head(s)))

\* Number(s) for the decimal text of an integer
StringToNumber(s) ==
  IF s # <<>> /\ Head(s) = "-" THEN -CharsToNat(Tail(s), 0) ELSE CharsToNat(s, 0)

\* key.split(',').map(Number)
parseChunkKey(key) ==
  LET parts == Split(key)
  IN [cx |-> StringToNumber(parts[1]),
      cy |-> StringToNumber(parts[2]),
      cz |-> StringToNumber(parts[3])]

-----------------------------------------------------------------------------
(* Block registries *)

\* BLOCK_INFO of convex/http.ts: index = id
BLOCK_INFO ==
  <<[id |-> 0,  solid |-> FALSE, buildable |-> FALSE],
    [id |-> 1,  solid |-> TRUE,  buildable |-> TRUE],
    [id |-> 2,  solid |-> TRUE,  buildable |-> TRUE],
    [id |-> 3,  solid |-> TRUE,  buildable |-> TRUE],
    [id |-> 4,  solid |-> TRUE,  buildable |-> TRUE],
    [id |-> 5,  solid |-> TRUE,  buildable |-> TRUE],
    [id |-> 6,  solid |-> FALSE, buildable |-> FALSE],
    [id |-> 7,  solid |-> TRUE,  buildable |-> TRUE],
    [id |-> 8,  solid |-> TRUE,  buildable |-> FALSE],
    [id |-> 9,  solid |-> FALSE, buildable |-> TRUE],
    [id |-> 10, solid |-> FALSE, buildable |-> TRUE],
    [id |-> 11, solid |-> FALSE, buildable |-> TRUE]>>

\* BLOCK_INFO.find(b => b.id === blockType && b.buildable) is found
IsBuildable(blockType) ==
  \E i \in 1..Len(BLOCK_INFO) :
    BLOCK_INFO[i].id = blockType /\ BLOCK_INFO[i].buildable

\* currentBlockInfo && currentBlockInfo.solid, currentBlockInfo = BLOCK_INFO[id]
InfoSolid(blockId) ==
  /\ blockId >= 0
  /\ blockId < Len(BLOCK_INFO)
  /\ BLOCK_INFO[blockId + 1].solid

\* BlockDefinitions of the shared package: ids 0..8, def?.solid ?? false
BlockDefinitionSolid(blockId) ==
  blockId \in {STONE, DIRT, GRASS, WOOD, LEAVES, SAND, BEDROCK}

-----------------------------------------------------------------------------
(* Noise sources.  SimplexNoise is floating-point arithmetic over a         *)
(* permutation table shuffled from the seed: for a given seed every sample  *)
(* is a fixed number.  The model keeps, per seed, the quantities the        *)
(* generators derive from the samples:                                      *)
(*   height[<<x,z>>]  Math.floor(baseHeight + fbm(x*0.01, z*0.01)*32)       *)
(*   tree             the columns with treeNoise.noise2D(x*0.1,z*0.1)>=0.3  *)
(*   tall             the columns whose seededRandom(x,z)*2 floors to 1     *)
(*   veg[<<x,z>>]     the range vegetationNoise.noise2D(x*0.3,z*0.3) is in  *)
(* They are chosen once, in Init, and never change.                         *)

getHeightAt(nz, worldX, worldZ) == nz.height[<<worldX, worldZ>>]

treeGate(nz, worldX, worldZ) == <<worldX, worldZ>> \in nz.tree

\* Math.floor(seededRandom(worldX, worldZ) * 2)
seededRandom2(nz, worldX, worldZ) == IF <<worldX, worldZ>> \in nz.tall THEN 1 ELSE 0

vegetationKind(nz, worldX, worldZ) == nz.veg[<<worldX, worldZ>>]

-----------------------------------------------------------------------------
(* Terrain generator of discrete mode: convex/lib/terrain.ts.               *)
(* The code fills a 4096-byte buffer in passes; the operators below give    *)
(* the byte each pass leaves at one local position, passes applied in the   *)
(* order of the code (a later write wins).                                  *)

\* getBlockAt without its first rule
terrain_getBlockAt_NoBedrock(worldY, terrainHeight) ==
  IF worldY < terrainHeight - 4 THEN STONE
  ELSE IF worldY < terrainHeight THEN DIRT
  ELSE AIR

terrain_getBlockAt(worldY, terrainHeight) ==
  IF worldY = 0 THEN BEDROCK
  ELSE IF worldY < terrainHeight - 4 THEN STONE
  ELSE IF worldY < terrainHeight THEN DIRT
  ELSE IF worldY = terrainHeight
    THEN (IF terrainHeight < seaLevel - 2 THEN SAND ELSE GRASS)
  ELSE IF worldY <= seaLevel /\ terrainHeight < seaLevel THEN WATER
  ELSE AIR

\* the platform loop, then the corner pillars, then the centre beacon
addSpawnPlatform(prev, worldX, worldY, worldZ) ==
  LET spawnY == baseHeight
      \* Math.sqrt(x*x + z*z) <= platformRadius, exact on integers
      inPlatform == worldX * worldX + worldZ * worldZ <= platformRadius * platformRadius
      checker == (Abs(worldX) + Abs(worldZ)) % 2 = 0
      afterPlatform ==
        IF inPlatform /\ worldY = spawnY THEN (IF checker THEN STONE ELSE DIRT)
        ELSE IF inPlatform /\ worldY > spawnY /\ worldY < spawnY + 10 THEN AIR
        ELSE prev
      isPillar == <<worldX, worldZ>> \in {<<-6, -6>>, <<-6, 6>>, <<6, -6>>, <<6, 6>>}
      afterPillars ==
        IF isPillar /\ worldY \in (spawnY + 1)..(spawnY + 4) THEN WOOD
        ELSE IF isPillar /\ worldY = spawnY + 5 THEN LEAVES
        ELSE afterPlatform
  IN IF worldX = 0 /\ worldZ = 0 /\ worldY \in (spawnY + 1)..(spawnY + 8)
       THEN (IF worldY - spawnY <= 2 THEN STONE ELSE LEAVES)
       ELSE afterPillars

\* for (lx = 2; lx < CHUNK_SIZE - 2; lx += 5) for (lz = 2; ...; lz += 5)
TreeCandidates ==
  <<<<2, 2>>, <<2, 7>>, <<2, 12>>, <<7, 2>>, <<7, 7>>, <<7, 12>>,
    <<12, 2>>, <<12, 7>>, <<12, 12>>>>

\* what a pass writes at one position: nothing, or a block
NoWrite == [writes |-> FALSE, block |-> AIR]
Write(block) == [writes |-> TRUE, block |-> block]

\* What a tree with its trunk base at local (x, y, z) writes at local l:
\* the trunk loop, then the leaf loops (which run after it).
treeWrite(x, y, z, trunkHeight, l) ==
  LET leafStart == y + trunkHeight - 1
      dx == l.x - x
      dy == l.y - leafStart
      dz == l.z - z
      leaf ==
        /\ dy \in 0..2 /\ dx \in -2..2 /\ dz \in -2..2
        /\ ~(Abs(dx) = 2 /\ Abs(dz) = 2)
        /\ ~(dy = 2 /\ (Abs(dx) > 1 \/ Abs(dz) > 1))
        /\ ~(dx = 0 /\ dz = 0 /\ dy < 2)
      trunk ==
        /\ l.x = x /\ l.z = z
        /\ l.y - y \in 0..(trunkHeight - 1)
        /\ l.y < CHUNK_SIZE
  IN IF leaf THEN Write(LEAVES) ELSE IF trunk THEN Write(WOOD) ELSE NoWrite

\* Is local position l inside the footprint of a tree at local column (x, z):
\* the trunk column and the leaf columns (dx, dz in -2..2, corners cut)
Reaches(x, z, l) ==
  /\ Abs(l.x - x) <= 2
  /\ Abs(l.z - z) <= 2
  /\ ~(Abs(l.x - x) = 2 /\ Abs(l.z - z) = 2)

\* one iteration of the candidate loop of addTrees
terrain_treeAt(nz, base, cand, l) ==
  LET worldX == base.x + cand[1]
      worldZ == base.z + cand[2]
      terrainHeight == getHeightAt(nz, worldX, worldZ)
      treeBaseY == terrainHeight + 1 - base.y
  IN IF ~Reaches(cand[1], cand[2], l) THEN NoWrite
     ELSE IF Abs(worldX) <= 10 /\ Abs(worldZ) <= 10 THEN NoWrite
     ELSE IF ~treeGate(nz, worldX, worldZ) THEN NoWrite
     ELSE IF terrainHeight <= seaLevel THEN NoWrite
     ELSE IF treeBaseY < 0 \/ treeBaseY >= CHUNK_SIZE - 5 THEN NoWrite
     ELSE treeWrite(cand[1], treeBaseY, cand[2],
                    4 + seededRandom2(nz, worldX, worldZ), l)

RECURSIVE terrain_addTrees(_, _, _, _, _)
terrain_addTrees(prev, nz, base, l, k) ==
  IF k > Len(TreeCandidates) THEN prev
  ELSE LET w == terrain_treeAt(nz, base, TreeCandidates[k], l)
       IN terrain_addTrees(IF w.writes THEN w.block ELSE prev, nz, base, l, k + 1)

addVegetation(prev, nz, base, l) ==
  LET worldX == base.x + l.x
      worldZ == base.z + l.z
      terrainHeight == getHeightAt(nz, worldX, worldZ)
      vegetationY == terrainHeight + 1 - base.y
      kind == vegetationKind(nz, worldX, worldZ)
  IN IF Abs(worldX) <= 10 /\ Abs(worldZ) <= 10 THEN prev
     ELSE IF terrainHeight <= seaLevel THEN prev
     ELSE IF l.y # vegetationY THEN prev
     ELSE IF kind = "tall" THEN TALL_GRASS
     ELSE IF kind = "red" THEN FLOWER_RED
     ELSE IF kind = "yellow" THEN FLOWER_YELLOW
     ELSE prev

\* the byte generateChunk(cx, cy, cz) leaves at local position l
terrain_blockAt(nz, coord, l) ==
  LET base == [x |-> coord.cx * CHUNK_SIZE, y |-> coord.cy * CHUNK_SIZE,
               z |-> coord.cz * CHUNK_SIZE]
      worldX == base.x + l.x
      worldY == base.y + l.y
      worldZ == base.z + l.z
      t1 == terrain_getBlockAt(worldY, getHeightAt(nz, worldX, worldZ))
      t2 == addSpawnPlatform(t1, worldX, worldY, worldZ)
      layer == coord.cy >= 0 /\ coord.cy <= CeilDiv(baseHeight, CHUNK_SIZE) + 2
      t3 == IF layer THEN terrain_addTrees(t2, nz, base, l, 1) ELSE t2
  IN IF layer THEN addVegetation(t3, nz, base, l) ELSE t3

-----------------------------------------------------------------------------
(* The window of the world the model keeps, and the inputs it draws *)

\* (5,65,5): chunk 0,4,0; air in the cleared headroom of the spawn platform
\*           (discrete mode), terrain in continuous mode (no platform there)
\* (5,64,5): chunk 0,4,0; the surface of the spawn platform, or terrain
\* (5,0,5):  chunk 0,0,0; bedrock
\* (-1,65,-1): chunk -1,4,-1 (negative coordinates)
\* (7,71,12): chunk 0,4,0; with seed 42 a tree stands on column (7,12), its
\*           trunk base at y = 67: this is the fifth block above the base,
\*           wood when the trunk is 5 high, air when it is 4 high
Window == {<<5, 65, 5>>, <<5, 64, 5>>, <<5, 0, 5>>, <<-1, 65, -1>>, <<7, 71, 12>>}

PosChunk(p) == worldToChunk(p[1], p[2], p[3])
PosLocal(p) == worldToLocal(p[1], p[2], p[3])
PosIndex(p) == LET l == PosLocal(p) IN coordToIndex(l.x, l.y, l.z)

WindowCoords == {PosChunk(p) : p \in Window}

\* the indices of a chunk's buffer that the model keeps
WindowIdx(coord) == {PosIndex(p) : p \in {q \in Window : PosChunk(q) = coord}}

\* JSON values of a request body: the integer n, the number n + 1/2 (v is
\* its floor), a string, and a field that is missing
Num(n) == [t |-> "number", v |-> n]
Frac(n) == [t |-> "number", v |-> n, half |-> TRUE]
Str == [t |-> "string", v |-> 0]
Undefined == [t |-> "undefined", v |-> 0]
IsNumber(j) == j.t = "number"
IsHalf(j) == "half" \in DOMAIN j

\* the block ids a client may send: stone and red flower (buildable, the
\* flower not solid); air, water and bedrock (not buildable), 12 (unknown)
\* and a string
GoodBlockTypes == {Num(STONE), Num(FLOWER_RED)}
BadBlockTypes == {Num(AIR), Num(WATER), Num(BEDROCK), Num(12), Str}

-----------------------------------------------------------------------------
(* convex/http.ts: block buffer helpers *)

\* btoa(String.fromCharCode(...blocks)): one character per block, code = value
encodeBlocks(blocks) == [b64 |-> [i \in DOMAIN blocks |-> blocks[i] % 65536]]

\* atob, then charCodeAt per character
decodeBlocks(base64) == [i \in DOMAIN base64.b64 |-> base64.b64[i]]

http_getBlockAt(blocks, localX, localY, localZ) ==
  IF localX < 0 \/ localX >= CHUNK_SIZE \/ localY < 0 \/ localY >= CHUNK_SIZE
       \/ localZ < 0 \/ localZ >= CHUNK_SIZE
    THEN -1
    ELSE LET index == coordToIndex(localX, localY, localZ)
         IN IF index \in DOMAIN blocks THEN blocks[index] ELSE 0

http_setBlockAt(blocks, localX, localY, localZ, blockType) ==
  [blocks EXCEPT ![coordToIndex(localX, localY, localZ)] = blockType]

\* generateChunk(cx, cy, cz) of convex/lib/terrain.ts: DEFAULT_CONFIG, base64
generateChunk(nz, coord) ==
  encodeBlocks([i \in WindowIdx(coord) |->
                  terrain_blockAt(nz, coord, indexToCoord(i))])

-----------------------------------------------------------------------------
(* convex/chunks.ts: the mutations on table "chunks".  A Convex mutation is *)
(* one transaction: each operator below is applied in a single step.        *)

\* ctx.db.query("chunks").withIndex("by_key", q => q.eq("key", key))
RowsByKey(table, key) == {i \in 1..Len(table) : table[i].key = key}

\* .unique() throws when more than one row matches
UniqueThrows(table, key) == Cardinality(RowsByKey(table, key)) > 1

Unique(table, key) == CHOOSE i \in RowsByKey(table, key) : TRUE

NewRow(key, coord, blocksBase64) ==
  [key |-> key, cx |-> coord.cx, cy |-> coord.cy, cz |-> coord.cz,
   blocksBase64 |-> blocksBase64]

\* getOrGenerate with the existence check left out: always generate and insert
getOrGenerate_db_NoCheck(table, nz, key, coord) ==
  Append(table, NewRow(key, coord, generateChunk(nz, coord)))

\* getOrGenerate, and one iteration of getOrGenerateMany: the table afterwards
getOrGenerate_db(table, nz, key, coord) ==
  IF RowsByKey(table, key) # {} THEN table
  ELSE Append(table, NewRow(key, coord, generateChunk(nz, coord)))

\* getOrGenerate: the chunk returned
getOrGenerate_ret(table, nz, key, coord) ==
  IF RowsByKey(table, key) # {} THEN table[Unique(table, key)]
  ELSE NewRow(key, coord, generateChunk(nz, coord))

\* getOrGenerateMany over the sequence coords of [key, coord]: the table afterwards
RECURSIVE getOrGenerateMany_db(_, _, _)
getOrGenerateMany_db(table, nz, coords) ==
  IF coords = <<>> THEN table
  ELSE getOrGenerateMany_db(
         getOrGenerate_db(table, nz, Head(coords).key, Head(coords).coord),
         nz, Tail(coords))

\* getOrGenerateMany: results[key]
getOrGenerateMany_ret(table, nz, coords, key) ==
  getOrGenerate_ret(table, nz, key,
                    (CHOOSE c \in {coords[i] : i \in 1..Len(coords)} : c.key = key).coord)

\* does some query of getOrGenerateMany throw
getOrGenerateMany_throws(table, coords) ==
  \E i \in 1..Len(coords) : UniqueThrows(table, coords[i].key)

\* save that leaves an existing row as it is
save_NoPatch(table, key, coord, blocksBase64) ==
  IF RowsByKey(table, key) # {}
    THEN table
    ELSE Append(table, NewRow(key, coord, blocksBase64))

\* save: patch the existing row, or insert
save(table, key, coord, blocksBase64) ==
  IF RowsByKey(table, key) # {}
    THEN [table EXCEPT ![Unique(table, key)].blocksBase64 = blocksBase64]
    ELSE Append(table, NewRow(key, coord, blocksBase64))

-----------------------------------------------------------------------------
(* Discrete mode: POST /agent/action of convex/http.ts.                      *)
(* An HTTP action runs its mutations one after the other; other requests'   *)
(* mutations may run between them.  Each client of the model sends one      *)
(* request; clients are interchangeable, so they start in index order.      *)

NumClients == 2

Clients == 1..NumClients

NoChunk == [b64 |-> <<>>]

\* the body of a request that has no "blocks" array
NoBody == [isArray |-> FALSE, blocks |-> <<>>]

IdleReq ==
  [pc |-> "idle", type |-> "none", pos |-> <<>>, blockType |-> Num(AIR),
   key |-> <<>>, seen |-> NoChunk, blocks |-> <<>>, status |-> 0,
   error |-> "", after |-> {},
   body |-> NoBody, groups |-> <<>>, results |-> <<>>, next |-> 0,
   placed |-> 0, skipped |-> 0, broken |-> 0,
   scan |-> [xs |-> {}, ys |-> {}, zs |-> {}, found |-> {}]]

\* the request bodies: integer coordinates inside the window, and one body
\* whose x is not a number
JsonPos(p) == <<Num(p[1]), Num(p[2]), Num(p[3])>>

CoordInputs == {JsonPos(p) : p \in Window} \cup {<<Str, Num(65), Num(5)>>}

\* place bodies <<pos, blockType>>: every position with a buildable id, and
\* every other id at (5,65,5)
PlaceInputs ==
  (CoordInputs \X GoodBlockTypes) \cup ({JsonPos(<<5, 65, 5>>)} \X BadBlockTypes)

CanStart(c) ==
  /\ mode = "discrete"
  /\ req[c].pc = "idle"
  /\ \A d \in Clients : d < c => req[d].pc # "idle"

DoneClients == {d \in Clients : req[d].pc = "done"}

\* jsonResponse(..., status): the request is answered
Respond(c, type, pos, blockType, status, error) ==
  [IdleReq EXCEPT !.pc = "done", !.type = type, !.pos = pos,
                  !.blockType = blockType, !.status = status, !.error = error,
                  !.after = DoneClients]

\* typeof x !== "number" || typeof y !== "number" || typeof z !== "number"
BadCoords(pos) == ~IsNumber(pos[1]) \/ ~IsNumber(pos[2]) \/ ~IsNumber(pos[3])

\* typeof blockType !== "number" || !BLOCK_INFO.find(... b.buildable)
BadBlockType(blockType) == ~IsNumber(blockType) \/ ~IsBuildable(blockType.v)

\* Math.floor(x / CHUNK_SIZE), ... of the handlers; the floor of n + 1/2
\* over CHUNK_SIZE is that of n
ReqCoord(pos) == worldToChunk(pos[1].v, pos[2].v, pos[3].v)

\* ((x % CHUNK_SIZE) + CHUNK_SIZE) % CHUNK_SIZE, ...: for n + 1/2 the local
\* coordinate of n plus 1/2, of which this is the integer part
ReqLocal(pos) == worldToLocal(pos[1].v, pos[2].v, pos[3].v)

\* index = localX + localY * CHUNK_SIZE + localZ * CHUNK_SIZE * CHUNK_SIZE of
\* the helpers for the local coordinates of pos: a half in y adds 8, a half
\* in z adds 128, and a half in x leaves a number that is no integer
\* (whole is FALSE, at its floor).  No local coordinate reaches CHUNK_SIZE.
ReqIndex(pos) ==
  LET l == ReqLocal(pos)
  IN [whole |-> ~IsHalf(pos[1]),
      at |-> coordToIndex(l.x, l.y, l.z)
               + (IF IsHalf(pos[2]) THEN CHUNK_SIZE \div 2 ELSE 0)
               + (IF IsHalf(pos[3]) THEN (CHUNK_SIZE * CHUNK_SIZE) \div 2 ELSE 0)]

\* getBlockAt(blocks, localX, localY, localZ) for the position of a request:
\* blocks[index] ?? 0, undefined when index is no integer
req_getBlockAt(blocks, pos) ==
  IF ReqIndex(pos).whole /\ ReqIndex(pos).at \in DOMAIN blocks
    THEN blocks[ReqIndex(pos).at]
    ELSE 0

\* setBlockAt(blocks, localX, localY, localZ, blockType) for the position of
\* a request: blocks[index] = blockType, which sets no element of the array
\* when index is no integer
req_setBlockAt(blocks, pos, blockType) ==
  IF ReqIndex(pos).whole
    THEN [blocks EXCEPT ![ReqIndex(pos).at] = blockType]
    ELSE blocks

\* the occupied check left out
PlaceOccupied_Never(currentBlock) == FALSE

\* place: "Check if there's already a solid block here"
PlaceOccupied(currentBlock) == InfoSolid(currentBlock)

\* the bedrock check of break left out
BreakRejected_AirOnly(currentBlock) == currentBlock = AIR

\* break: bedrock and air cannot be broken
BreakRejected(currentBlock) == currentBlock = BEDROCK \/ currentBlock = AIR

\* case "place", up to the call of api.chunks.save
HttpPlace(c, pos, blockType) ==
  /\ CanStart(c)
  /\ IF BadCoords(pos)
       THEN /\ req' = [req EXCEPT ![c] = Respond(c, "place", pos, blockType, 400, "coords")]
            /\ db' = db
     ELSE IF BadBlockType(blockType)
       THEN /\ req' = [req EXCEPT ![c] = Respond(c, "place", pos, blockType, 400, "blocktype")]
            /\ db' = db
     ELSE LET coord == ReqCoord(pos)
              key == chunkKey(coord)
              coords == <<[key |-> key, coord |-> coord]>>
          IN IF getOrGenerateMany_throws(db, coords)
               THEN /\ req' = [req EXCEPT ![c] = Respond(c, "place", pos, blockType, 500, "throw")]
                    /\ db' = db
             ELSE LET chunk == getOrGenerateMany_ret(db, noise, coords, key)
                      blocks == decodeBlocks(chunk.blocksBase64)
                      currentBlock == req_getBlockAt(blocks, pos)
                  IN /\ db' = getOrGenerateMany_db(db, noise, coords)
                     /\ IF PlaceOccupied(currentBlock)
                          THEN req' = [req EXCEPT ![c] =
                                 [Respond(c, "place", pos, blockType, 400, "occupied")
                                    EXCEPT !.key = key, !.seen = chunk.blocksBase64]]
                          ELSE req' = [req EXCEPT ![c] =
                                 [IdleReq EXCEPT !.pc = "loaded", !.type = "place",
                                    !.pos = pos, !.blockType = blockType, !.key = key,
                                    !.seen = chunk.blocksBase64,
                                    !.blocks = req_setBlockAt(blocks, pos, blockType.v),
                                    !.after = DoneClients]]
  /\ UNCHANGED <<envVars, contVars>>

\* case "break", up to the call of api.chunks.save
HttpBreak(c, pos) ==
  /\ CanStart(c)
  /\ IF BadCoords(pos)
       THEN /\ req' = [req EXCEPT ![c] = Respond(c, "break", pos, Num(AIR), 400, "coords")]
            /\ db' = db
     ELSE LET coord == ReqCoord(pos)
              key == chunkKey(coord)
              coords == <<[key |-> key, coord |-> coord]>>
          IN IF getOrGenerateMany_throws(db, coords)
               THEN /\ req' = [req EXCEPT ![c] = Respond(c, "break", pos, Num(AIR), 500, "throw")]
                    /\ db' = db
             ELSE LET chunk == getOrGenerateMany_ret(db, noise, coords, key)
                      blocks == decodeBlocks(chunk.blocksBase64)
                      currentBlock == req_getBlockAt(blocks, pos)
                  IN /\ db' = getOrGenerateMany_db(db, noise, coords)
                     /\ IF BreakRejected(currentBlock)
                          THEN req' = [req EXCEPT ![c] =
                                 [Respond(c, "break", pos, Num(AIR), 400,
                                          IF currentBlock = BEDROCK THEN "bedrock" ELSE "air")
                                    EXCEPT !.key = key, !.seen = chunk.blocksBase64]]
                          ELSE req' = [req EXCEPT ![c] =
                                 [IdleReq EXCEPT !.pc = "loaded", !.type = "break",
                                    !.pos = pos, !.key = key,
                                    !.seen = chunk.blocksBase64,
                                    !.blocks = req_setBlockAt(blocks, pos, AIR),
                                    !.after = DoneClients]]
  /\ UNCHANGED <<envVars, contVars>>

\* the rest of case "place" / "break": api.chunks.save, then success: true
HttpSave(c) ==
  /\ mode = "discrete"
  /\ req[c].pc = "loaded"
  /\ IF UniqueThrows(db, req[c].key)
       THEN /\ db' = db
            /\ req' = [req EXCEPT ![c].pc = "done", ![c].status = 500, ![c].error = "throw"]
       ELSE /\ db' = save(db, req[c].key, ReqCoord(req[c].pos), encodeBlocks(req[c].blocks))
            /\ req' = [req EXCEPT ![c].pc = "done", ![c].status = 200]
  /\ UNCHANGED <<envVars, contVars>>

\* a client calling the mutation api.chunks.getOrGenerate for a window chunk
ClientGetOrGenerate(c, coord) ==
  /\ CanStart(c)
  /\ LET key == chunkKey(coord)
     IN IF UniqueThrows(db, key)
          THEN /\ db' = db
               /\ req' = [req EXCEPT ![c] =
                    [Respond(c, "get", <<>>, Num(AIR), 500, "throw") EXCEPT !.key = key]]
          ELSE /\ db' = getOrGenerate_db(db, noise, key, coord)
               /\ req' = [req EXCEPT ![c] =
                    [Respond(c, "get", <<>>, Num(AIR), 200, "") EXCEPT
                       !.key = key,
                       !.seen = getOrGenerate_ret(db, noise, key, coord).blocksBase64]]
  /\ UNCHANGED <<envVars, contVars>>

-----------------------------------------------------------------------------
(* Terrain generator of continuous mode: generator.ts of the world package. *)
(* No spawn platform, no vegetation; placeTree draws the trunk height from  *)
(* Math.random(): rnd[k] is Math.floor(Math.random() * 2) as drawn for the  *)
(* k-th tree candidate of the chunk being generated.                        *)

Gen_getBlockAt(worldY, terrainHeight) ==
  IF worldY = 0 THEN BEDROCK
  ELSE IF worldY < terrainHeight - 4 THEN STONE
  ELSE IF worldY < terrainHeight THEN DIRT
  ELSE IF worldY = terrainHeight
    THEN (IF terrainHeight < seaLevel - 2 THEN SAND ELSE GRASS)
  ELSE IF worldY <= seaLevel /\ terrainHeight < seaLevel THEN WATER
  ELSE AIR

\* placeTree(chunk, x, y, z) with trunkHeight = 4 + draw: what it writes at l
placeTree(x, y, z, draw, l) == treeWrite(x, y, z, 4 + draw, l)

\* one iteration of the candidate loop of TerrainGenerator.addTrees
Gen_treeAt(nz, base, k, rnd, l) ==
  LET cand == TreeCandidates[k]
      worldX == base.x + cand[1]
      worldZ == base.z + cand[2]
      terrainHeight == getHeightAt(nz, worldX, worldZ)
      treeBaseY == terrainHeight + 1 - base.y
  IN IF ~Reaches(cand[1], cand[2], l) THEN NoWrite
     ELSE IF ~treeGate(nz, worldX, worldZ) THEN NoWrite
     ELSE IF terrainHeight <= seaLevel THEN NoWrite
     ELSE IF treeBaseY < 0 \/ treeBaseY >= CHUNK_SIZE - 5 THEN NoWrite
     ELSE placeTree(cand[1], treeBaseY, cand[2], rnd[k], l)

RECURSIVE Gen_addTrees(_, _, _, _, _, _)
Gen_addTrees(prev, nz, base, rnd, l, k) ==
  IF k > Len(TreeCandidates) THEN prev
  ELSE LET w == Gen_treeAt(nz, base, k, rnd, l)
       IN Gen_addTrees(IF w.writes THEN w.block ELSE prev, nz, base, rnd, l, k + 1)

\* the byte TerrainGenerator.generateChunk(coord) leaves at local position l
Gen_blockAt(nz, coord, rnd, l) ==
  LET base == [x |-> coord.cx * CHUNK_SIZE, y |-> coord.cy * CHUNK_SIZE,
               z |-> coord.cz * CHUNK_SIZE]
      t1 == Gen_getBlockAt(base.y + l.y, getHeightAt(nz, base.x + l.x, base.z + l.z))
  IN IF coord.cy >= 0 /\ coord.cy <= CeilDiv(baseHeight, CHUNK_SIZE) + 2
       THEN Gen_addTrees(t1, nz, base, rnd, l, 1)
       ELSE t1

\* TerrainGenerator.generateChunk(coord): a fresh chunk, not dirty
Gen_generateChunk(nz, coord, rnd) ==
  [coord |-> coord,
   blocks |-> [i \in WindowIdx(coord) |-> Gen_blockAt(nz, coord, rnd, indexToCoord(i)) % 256],
   dirty |-> FALSE]

\* the tree candidates of a chunk whose footprint meets the window
RelevantCandidates(coord) ==
  {k \in 1..Len(TreeCandidates) :
     \E i \in WindowIdx(coord) :
       Reaches(TreeCandidates[k][1], TreeCandidates[k][2], indexToCoord(i))}

\* the outcomes of the Math.random() calls of one generation of chunk coord
RandomDraws(coord) ==
  {[k \in 1..Len(TreeCandidates) |-> IF k \in S THEN 1 ELSE 0] :
     S \in SUBSET RelevantCandidates(coord)}

\* RandomDraws, tabulated over the chunks of the window
RandomDrawsOf == [coord \in WindowCoords |-> RandomDraws(coord)]

NoDraw == [k \in 1..Len(TreeCandidates) |-> 0]

-----------------------------------------------------------------------------
(* Continuous mode: class World of the world package.                       *)
(* chunks is a Map from key to Chunk; JavaScript is single-threaded and no  *)
(* method of World awaits, so every method is one step.                     *)

\* getBlock(chunk, x, y, z) of chunk.ts
getBlock(chunk, x, y, z) ==
  IF x < 0 \/ x >= CHUNK_SIZE \/ y < 0 \/ y >= CHUNK_SIZE \/ z < 0 \/ z >= CHUNK_SIZE
    THEN AIR
    ELSE chunk.blocks[coordToIndex(x, y, z)]

\* setBlock(chunk, x, y, z, blockId) of chunk.ts; blocks is a Uint8Array
setBlock(chunk, x, y, z, blockId) ==
  IF x < 0 \/ x >= CHUNK_SIZE \/ y < 0 \/ y >= CHUNK_SIZE \/ z < 0 \/ z >= CHUNK_SIZE
    THEN chunk
    ELSE [chunk EXCEPT !.blocks[coordToIndex(x, y, z)] = blockId % 256,
                       !.dirty = TRUE]

\* World.getChunk(coord): the map afterwards
World_getChunk(map, nz, coord, rnd) ==
  LET key == chunkKey(coord)
  IN IF key \in DOMAIN map THEN map
     ELSE (key :> Gen_generateChunk(nz, coord, rnd)) @@ map

\* World.getBlockAt(x, y, z), on the map after its getChunk
World_getBlockAt(map, p) ==
  LET l == PosLocal(p)
  IN getBlock(map[chunkKey(PosChunk(p))], l.x, l.y, l.z)

\* the bedrock check left out
SetBlockRefused_Never(current, blockId) == FALSE

\* setBlockAt that tracks the chunk before it checks for bedrock
World_setBlockAt_TrackRefused(map, modified, nz, p, blockId, rnd) ==
  LET m1 == World_getChunk(map, nz, PosChunk(p), rnd)
      key == chunkKey(PosChunk(p))
      l == PosLocal(p)
  IN IF blockId = AIR /\ World_getBlockAt(m1, p) = BEDROCK
       THEN [ret |-> FALSE, map |-> m1, modified |-> modified \cup {key}]
       ELSE [ret |-> TRUE,
             map |-> [m1 EXCEPT ![key] = setBlock(m1[key], l.x, l.y, l.z, blockId)],
             modified |-> modified \cup {key}]

\* World.setBlockAt: "Can't break bedrock"
SetBlockRefused(current, blockId) == blockId = AIR /\ current = BEDROCK

\* World.setBlockAt(x, y, z, blockId): return value, map and modified set after
World_setBlockAt(map, modified, nz, p, blockId, rnd) ==
  LET m1 == World_getChunk(map, nz, PosChunk(p), rnd)
      key == chunkKey(PosChunk(p))
      l == PosLocal(p)
  IN IF SetBlockRefused(World_getBlockAt(m1, p), blockId)
       THEN [ret |-> FALSE, map |-> m1, modified |-> modified]
       ELSE [ret |-> TRUE,
             map |-> [m1 EXCEPT ![key] = setBlock(m1[key], l.x, l.y, l.z, blockId)],
             modified |-> modified \cup {key}]

\* World.isSolid for integer coordinates
World_isSolid(map, p) == BlockDefinitionSolid(World_getBlockAt(map, p))

\* a flush that writes nothing
saveWorld_disk_Nothing(map, modified, files) == files

\* World.saveWorld() when every write succeeds: the files afterwards
saveWorld_disk(map, modified, files) ==
  [k \in DOMAIN files \cup (modified \cap DOMAIN map) |->
     IF k \in modified /\ k \in DOMAIN map
       THEN [coord |-> map[k].coord, blocks |-> map[k].blocks]
       ELSE files[k]]

\* World.loadWorld(): the chunks created from the files, none dirty
loadWorld(files) ==
  [k \in {chunkKey(files[f].coord) : f \in DOMAIN files} |->
     LET f == CHOOSE g \in DOMAIN files : chunkKey(files[g].coord) = k
     IN [coord |-> files[f].coord, blocks |-> files[f].blocks, dirty |-> FALSE]]

-----------------------------------------------------------------------------
(* Continuous mode: the operations of World called by the server, and       *)
(* GameServer.handleAction for place_block and break_block.                 *)

MaxSteps == 2

\* place_block actions <<position, blockId>>: every position with stone or a
\* red flower, and air, water and bedrock at (-1,65,-1), which is air
PlaceBlockInputs ==
  (Window \X {STONE, FLOWER_RED}) \cup ({<<-1, 65, -1>>} \X {AIR, WATER, BEDROCK})

\* direct calls of World.setBlockAt
SetBlockInputs == Window \X {AIR, STONE}

\* the draws a call touching chunk coord can make: none when it is loaded
Draws(coord) ==
  IF chunkKey(coord) \in DOMAIN chunks THEN {NoDraw} ELSE RandomDrawsOf[coord]

NoOp == [op |-> "none", pos |-> <<>>, blockId |-> AIR, before |-> AIR, ret |-> FALSE]

\* the server after index.ts has called start(): the auto-save timer is set
\* (running), nothing is pending and no flush has been made.  order is the
\* insertion order of the Set modifiedChunks; since is the set of chunks on
\* which setBlockAt has succeeded since the last flush that succeeded;
\* handed lists the keys the last flush passed to writeFileSync, and ok
\* tells whether that flush reached modifiedChunks.clear()
Started ==
  [running |-> TRUE, order |-> <<>>, since |-> {}, handed |-> <<>>, ok |-> TRUE]

\* modifiedChunks kept as an array: a key is pushed on every mutation
Added_Array(key, ret) ==
  IF ret
    THEN [flush EXCEPT !.order = Append(@, key), !.since = @ \cup {key}]
    ELSE flush

\* this.modifiedChunks.add(key) after a setBlockAt that returned ret
Added(key, ret) ==
  IF ret
    THEN [flush EXCEPT !.order = IF key \in modifiedChunks THEN @ ELSE Append(@, key),
                       !.since = @ \cup {key}]
    ELSE flush

CanStep ==
  /\ mode = "continuous"
  /\ flush.running
  /\ steps < MaxSteps

\* World.getChunk(coord), as called for request_chunks
WorldGetChunk(coord) ==
  /\ CanStep
  /\ \E rnd \in Draws(coord) : chunks' = World_getChunk(chunks, noise, coord, rnd)
  /\ last' = [NoOp EXCEPT !.op = "getChunk", !.pos = chunkKey(coord),
                          !.ret = chunkKey(coord) \in DOMAIN chunks]
  /\ steps' = steps + 1
  /\ UNCHANGED <<envVars, discVars, modifiedChunks, disk, flush>>

\* World.setBlockAt(x, y, z, blockId)
WorldSetBlockAt(p, blockId) ==
  /\ CanStep
  /\ \E rnd \in Draws(PosChunk(p)) :
     LET r == World_setBlockAt(chunks, modifiedChunks, noise, p, blockId, rnd)
     IN /\ chunks' = r.map
        /\ modifiedChunks' = r.modified
        /\ last' = [op |-> "setBlockAt", pos |-> p, blockId |-> blockId,
                    before |-> World_getBlockAt(World_getChunk(chunks, noise, PosChunk(p), rnd), p),
                    ret |-> r.ret]
        /\ flush' = Added(chunkKey(PosChunk(p)), r.ret)
  /\ steps' = steps + 1
  /\ UNCHANGED <<envVars, discVars, disk>>

\* handleAction, case 'place_block': the target must be air
PlaceAllowed(current, blockId) == current = AIR

\* handleAction, case 'break_block'
BreakAllowed(existing) == existing # AIR /\ existing # BEDROCK

HandlePlaceBlock(p, blockId) ==
  /\ CanStep
  /\ \E rnd \in Draws(PosChunk(p)) :
     LET m1 == World_getChunk(chunks, noise, PosChunk(p), rnd)
         current == World_getBlockAt(m1, p)
         r == World_setBlockAt(m1, modifiedChunks, noise, p, blockId, rnd)
     IN IF PlaceAllowed(current, blockId)
          THEN /\ chunks' = r.map
               /\ modifiedChunks' = r.modified
               /\ last' = [op |-> "place_block", pos |-> p, blockId |-> blockId,
                           before |-> current, ret |-> TRUE]
               /\ flush' = Added(chunkKey(PosChunk(p)), r.ret)
          ELSE /\ chunks' = m1
               /\ modifiedChunks' = modifiedChunks
               /\ last' = [op |-> "place_block", pos |-> p, blockId |-> blockId,
                           before |-> current, ret |-> FALSE]
               /\ flush' = flush
  /\ steps' = steps + 1
  /\ UNCHANGED <<envVars, discVars, disk>>

HandleBreakBlock(p) ==
  /\ CanStep
  /\ \E rnd \in Draws(PosChunk(p)) :
     LET m1 == World_getChunk(chunks, noise, PosChunk(p), rnd)
         existing == World_getBlockAt(m1, p)
         r == World_setBlockAt(m1, modifiedChunks, noise, p, AIR, rnd)
     IN IF BreakAllowed(existing)
          THEN /\ chunks' = r.map
               /\ modifiedChunks' = r.modified
               /\ last' = [op |-> "break_block", pos |-> p, blockId |-> AIR,
                           before |-> existing, ret |-> TRUE]
               /\ flush' = Added(chunkKey(PosChunk(p)), r.ret)
          ELSE /\ chunks' = m1
               /\ modifiedChunks' = modifiedChunks
               /\ last' = [op |-> "break_block", pos |-> p, blockId |-> AIR,
                           before |-> existing, ret |-> FALSE]
               /\ flush' = flush
  /\ steps' = steps + 1
  /\ UNCHANGED <<envVars, discVars, disk>>

\* World.saveWorld(), every write succeeding
SaveWorld ==
  /\ CanStep
  /\ modifiedChunks # {}
  /\ disk' = saveWorld_disk(chunks, modifiedChunks, disk)
  /\ modifiedChunks' = {}
  /\ last' = [NoOp EXCEPT !.op = "saveWorld", !.ret = TRUE]
  /\ flush' = [flush EXCEPT !.order = <<>>, !.since = {}, !.handed = flush.order,
                            !.ok = TRUE]
  /\ steps' = steps + 1
  /\ UNCHANGED <<envVars, discVars, chunks>>

-----------------------------------------------------------------------------
(* The specification: one deployment, discrete or continuous *)

\* DEFAULT_CONFIG.seed, also the seed GameServer passes to its World
DefaultSeed == 42

\* The noise of a seed over the columns of the window, as the arithmetic of
\* SimplexNoise, getHeightAt, seededRandom and addVegetation gives it in
\* IEEE doubles: for seed 42 and for seed 7.
\*   seed 42: heights 68, 63, 66; treeNoise(7,12) = 0.589 (a tree);
\*            seededRandom(7,12)*2 floors to 1; vegetationNoise(7,12) = 0.47
\*   seed 7:  heights 57, 66, 53; treeNoise(7,12) = 0.766, below sea level
\*            (no tree); seededRandom(7,12)*2 floors to 0; vegetation -0.73
SimplexNoise(seed) ==
  IF seed = DefaultSeed
    THEN [seed |-> seed,
          height |-> (<<5, 5>> :> 68) @@ (<<-1, -1>> :> 63) @@ (<<7, 12>> :> 66),
          tree |-> {<<7, 12>>}, tall |-> {<<7, 12>>},
          veg |-> (<<5, 5>> :> "tall") @@ (<<-1, -1>> :> "tall") @@ (<<7, 12>> :> "tall")]
    ELSE [seed |-> seed,
          height |-> (<<5, 5>> :> 57) @@ (<<-1, -1>> :> 66) @@ (<<7, 12>> :> 53),
          tree |-> {<<7, 12>>}, tall |-> {},
          veg |-> (<<5, 5>> :> "none") @@ (<<-1, -1>> :> "none") @@ (<<7, 12>> :> "none")]

\* an agent's slot of a connection that has not authenticated; moved is the
\* tick that last moved the agent, or the tick at which it joined
NoAgent == [joined |-> FALSE, id |-> 0, vx |-> "number", vz |-> "number",
            px |-> "number", pz |-> "number", moved |-> 0]

\* the game loop after start(): the tick timer is set, tick = 0, no agent.
\* agents[c] is client.agent of connection c; map is the keys of this.agents,
\* the id of a guest being <<connection, number of its auth>>
Booted == [alive |-> TRUE, tick |-> 0, agents |-> [c \in Clients |-> NoAgent],
           map |-> {}, outcome |-> "none", at |-> 0]

\* no agent is followed in numbers
NoBodyYet == [impl |-> "none"]

\* a fresh deployment: an empty table, no file on disk, nothing loaded
Fresh ==
  /\ db = <<>>
  /\ req = [c \in Clients |-> IdleReq]
  /\ disk = <<>>
  /\ chunks = loadWorld(disk)
  /\ modifiedChunks = {}
  /\ last = NoOp
  /\ steps = 0
  /\ flush = Started
  /\ generated = <<>>
  /\ sim = Booted
  /\ phys = NoBodyYet

Init ==
  /\ mode \in {"discrete", "continuous"}
  /\ noise = SimplexNoise(DefaultSeed)
  /\ Fresh

Next ==
  \/ \E c \in Clients, b \in PlaceInputs : HttpPlace(c, b[1], b[2])
  \/ \E c \in Clients, pos \in CoordInputs : HttpBreak(c, pos)
  \/ \E c \in Clients : HttpSave(c)
  \/ \E c \in Clients, coord \in WindowCoords : ClientGetOrGenerate(c, coord)
  \/ \E coord \in WindowCoords : WorldGetChunk(coord)
  \/ \E b \in SetBlockInputs : WorldSetBlockAt(b[1], b[2])
  \/ \E b \in PlaceBlockInputs : HandlePlaceBlock(b[1], b[2])
  \/ \E p \in Window : HandleBreakBlock(p)
  \/ SaveWorld

Spec == Init /\ [][Next]_vars

-----------------------------------------------------------------------------
(* Discrete mode: the viewer.  A click changes the block in the viewer's    *)
(* copy of the chunk and sends the whole chunk to the mutation              *)
(* game.placeBlock or game.breakBlock.  The copy is the stored row (the     *)
(* viewer follows the store); without the chunk the click does nothing.     *)

\* breakBlockAt / placeBlockAt: chunk.blocks[index] = blockType, then
\* btoa(String.fromCharCode(...chunk.blocks))
ViewerBlocks(table, p, blockType) ==
  LET key == chunkKey(PosChunk(p))
      blocks == decodeBlocks(table[Unique(table, key)].blocksBase64)
  IN encodeBlocks([blocks EXCEPT ![PosIndex(p)] = blockType])

\* game.breakBlock: patch the row when there is one
game_breakBlock(table, key, updatedBlocksBase64) ==
  IF RowsByKey(table, key) # {}
    THEN [table EXCEPT ![Unique(table, key)].blocksBase64 = updatedBlocksBase64]
    ELSE table

\* game.placeBlock: patch the row, or insert
game_placeBlock(table, key, coord, updatedBlocksBase64) ==
  save(table, key, coord, updatedBlocksBase64)

\* the viewer of c has the chunk of p
ViewerHas(c, p) ==
  /\ CanStart(c)
  /\ Cardinality(RowsByKey(db, chunkKey(PosChunk(p)))) = 1

\* left click on the block at p
ViewerBreak(c, p) ==
  /\ ViewerHas(c, p)
  /\ db' = game_breakBlock(db, chunkKey(PosChunk(p)), ViewerBlocks(db, p, AIR))
  /\ req' = [req EXCEPT ![c] =
       [Respond(c, "game.breakBlock", JsonPos(p), Num(AIR), 200, "")
          EXCEPT !.key = chunkKey(PosChunk(p))]]
  /\ UNCHANGED <<envVars, contVars>>

\* right click, the new block going to p; the hotbar holds buildable ids
ViewerPlace(c, p, blockType) ==
  /\ ViewerHas(c, p)
  /\ db' = game_placeBlock(db, chunkKey(PosChunk(p)), PosChunk(p),
                           ViewerBlocks(db, p, blockType))
  /\ req' = [req EXCEPT ![c] =
       [Respond(c, "game.placeBlock", JsonPos(p), Num(blockType), 200, "")
          EXCEPT !.key = chunkKey(PosChunk(p))]]
  /\ UNCHANGED <<envVars, contVars>>

\* the block operations of agents in both modes, and the loading of chunks
NextGame ==
  \/ \E c \in Clients, b \in PlaceInputs : HttpPlace(c, b[1], b[2])
  \/ \E c \in Clients, pos \in CoordInputs : HttpBreak(c, pos)
  \/ \E c \in Clients : HttpSave(c)
  \/ \E c \in Clients, coord \in WindowCoords : ClientGetOrGenerate(c, coord)
  \/ \E c \in Clients, p \in Window : ViewerBreak(c, p)
  \/ \E c \in Clients, p \in Window : ViewerPlace(c, p, STONE)
  \/ \E b \in PlaceBlockInputs : HandlePlaceBlock(b[1], b[2])
  \/ \E p \in Window : HandleBreakBlock(p)

SpecGame == Init /\ [][NextGame]_vars

-----------------------------------------------------------------------------
(* Continuous mode: persistence.  GameServer.start() sets a timer that      *)
(* calls World.saveWorld() when modifiedChunks is not empty; stop() clears  *)
(* the timer and calls saveWorld() once more, and its callers (index.ts,    *)
(* shutdown) then end the process.  saveWorld writes one file per key of    *)
(* modifiedChunks, in insertion order, and clears the set after the last    *)
(* write; a write that throws ends the loop in the catch clause, which only *)
(* logs.  A write that throws is taken to leave its file as it was.         *)

\* the files after the writes of a saveWorld() whose k-th write throws
saveWorld_failing(map, order, files, k) ==
  saveWorld_disk(map, {order[i] : i \in 1..(k - 1)}, files)

\* a catch clause that clears the pending set
saveWorld_caught_Cleared(modified) == {}

\* catch (err) { console.error(...) }: modifiedChunks as it was
saveWorld_caught(modified) == modified

\* saveWorld() that reaches modifiedChunks.clear()
Flushed ==
  [flush EXCEPT !.order = <<>>, !.since = {}, !.handed = flush.order, !.ok = TRUE]

\* saveWorld() whose k-th write throws: the keys it passed to writeFileSync
FlushFailed(k) == [flush EXCEPT !.handed = SubSeq(flush.order, 1, k), !.ok = FALSE]

Saving ==
  /\ mode = "continuous"
  /\ flush.running

\* the timer of start() fires, count > 0, and every write succeeds
AutoSave ==
  /\ Saving
  /\ modifiedChunks # {}
  /\ disk' = saveWorld_disk(chunks, modifiedChunks, disk)
  /\ modifiedChunks' = {}
  /\ last' = [NoOp EXCEPT !.op = "autosave", !.ret = TRUE]
  /\ flush' = Flushed
  /\ UNCHANGED <<envVars, discVars, chunks, steps>>

\* the timer fires, count > 0, and the k-th write throws
AutoSaveFails(k) ==
  /\ Saving
  /\ k \in 1..Len(flush.order)
  /\ disk' = saveWorld_failing(chunks, flush.order, disk, k)
  /\ modifiedChunks' = saveWorld_caught(modifiedChunks)
  /\ last' = [NoOp EXCEPT !.op = "autosave", !.ret = FALSE]
  /\ flush' = FlushFailed(k)
  /\ UNCHANGED <<envVars, discVars, chunks, steps>>

\* stop() and the end of the process; the final save succeeds, or there is
\* nothing to save
Stop ==
  /\ Saving
  /\ disk' = saveWorld_disk(chunks, modifiedChunks, disk)
  /\ modifiedChunks' = {}
  /\ last' = [NoOp EXCEPT !.op = "stop", !.ret = TRUE]
  /\ flush' = IF modifiedChunks = {}
                THEN [flush EXCEPT !.running = FALSE, !.handed = <<>>]
                ELSE [Flushed EXCEPT !.running = FALSE]
  /\ UNCHANGED <<envVars, discVars, chunks, steps>>

\* stop() whose final save throws at the k-th write
StopFails(k) ==
  /\ Saving
  /\ k \in 1..Len(flush.order)
  /\ disk' = saveWorld_failing(chunks, flush.order, disk, k)
  /\ modifiedChunks' = saveWorld_caught(modifiedChunks)
  /\ last' = [NoOp EXCEPT !.op = "stop", !.ret = FALSE]
  /\ flush' = [FlushFailed(k) EXCEPT !.running = FALSE]
  /\ UNCHANGED <<envVars, discVars, chunks, steps>>

\* the server is started again: new GameServer(), whose World loads the
\* files, and start()
Restart ==
  /\ mode = "continuous"
  /\ ~flush.running
  /\ chunks' = loadWorld(disk)
  /\ modifiedChunks' = {}
  /\ last' = [NoOp EXCEPT !.op = "restart"]
  /\ flush' = Started
  /\ UNCHANGED <<envVars, discVars, disk, steps>>

InitSave ==
  /\ mode = "continuous"
  /\ noise = SimplexNoise(DefaultSeed)
  /\ Fresh

NextSave ==
  \/ \E coord \in WindowCoords : WorldGetChunk(coord)
  \/ \E b \in SetBlockInputs : WorldSetBlockAt(b[1], b[2])
  \/ AutoSave
  \/ \E k \in 1..Cardinality(WindowCoords) : AutoSaveFails(k)
  \/ Stop
  \/ \E k \in 1..Cardinality(WindowCoords) : StopFails(k)
  \/ Restart

SpecSave == InitSave /\ [][NextSave]_vars

\* the timer keeps firing while the server runs, and a flush that can
\* succeed eventually does
SpecSaveFair == SpecSave /\ WF_vars(AutoSave)

-----------------------------------------------------------------------------
(* Continuous mode: the WebSocket messages of a connection and the tick loop
   of GameServer.  A coordinate of an agent is kept up to being a number or
   NaN; the chunks the model keeps are those of the window. *)

MaxTicks == 3

\* the messages a connection sends, by the text of an example
Messages ==
  {"invalid_json",        \* {"type":
   "null",                \* null
   "unknown_type",        \* {"type":"fly"}
   "auth",                \* {"type":"auth","token":"guest"}
   "auth_no_token",       \* {"type":"auth"}
   "action_no_action",    \* {"type":"action"}
   "unknown_action",      \* {"type":"action","action":{"type":"fly"}}
   "move",                \* ... "action":{"type":"move","direction":{"x":1,"z":0}}
   "move_no_direction",   \* ... "action":{"type":"move"}
   "move_empty",          \* ... "action":{"type":"move","direction":{}}
   "move_no_z",           \* ... "action":{"type":"move","direction":{"x":1}}
   "look_no_angles",      \* ... "action":{"type":"look"}
   "place_no_position",   \* ... "action":{"type":"place_block","blockId":1}
   "break_no_position",   \* ... "action":{"type":"break_block"}
   "chunks_no_coords",    \* {"type":"request_chunks"}
   "chat_no_message"}     \* {"type":"chat"}

\* JSON.parse(data.toString()) throws
parse_throws(m) == m = "invalid_json"

\* the messages handled by case 'action' of handleMessage
ActionMessages ==
  {"action_no_action", "unknown_action", "move", "move_no_direction",
   "move_empty", "move_no_z", "look_no_angles", "place_no_position",
   "break_no_position"}

\* handleAction(agent, action) throws a TypeError: action, action.direction
\* or action.position is undefined and a property of it is read
handleAction_throws(m) ==
  m \in {"action_no_action", "move_no_direction", "place_no_position",
         "break_no_position"}

\* undefined * speed is NaN
Times(field) == IF field = "undefined" THEN "NaN" ELSE "number"

\* handleAction: agent.velocity.x = action.direction.x * speed, and z
handleAction(agent, m) ==
  IF m = "move" THEN [agent EXCEPT !.vx = Times("number"), !.vz = Times("number")]
  ELSE IF m = "move_empty"
    THEN [agent EXCEPT !.vx = Times("undefined"), !.vz = Times("undefined")]
  ELSE IF m = "move_no_z"
    THEN [agent EXCEPT !.vx = Times("number"), !.vz = Times("undefined")]
  ELSE agent

\* handleMessage(client, msg) throws a TypeError: msg is null, the token is
\* undefined (token.toLowerCase / token.replace in auth), msg.coords is not
\* iterable, msg.message is undefined, or handleAction throws.  The cases
\* 'action', 'request_chunks' and 'chat' do nothing without an agent.
handleMessage_throws(s, c, m) ==
  \/ m = "null"
  \/ m = "auth_no_token"
  \/ /\ s.agents[c].joined
     /\ \/ m \in ActionMessages /\ handleAction_throws(m)
        \/ m \in {"chunks_no_coords", "chat_no_message"}

\* `guest:${uuid()}`: an id that no agent of this.agents has
NewId(s, c) == 1 + Cardinality({k \in s.map : k[1] = c})

\* handleAuth: a new agent at its spawn point and at rest becomes
\* client.agent and is added to this.agents
handleAuth(s, c) ==
  [s EXCEPT !.agents[c] = [NoAgent EXCEPT !.joined = TRUE, !.id = NewId(s, c),
                                          !.moved = s.tick],
            !.map = @ \cup {<<c, NewId(s, c)>>}]

\* handleMessage(client, msg) when it does not throw
handleMessage(s, c, m) ==
  IF m = "auth" THEN handleAuth(s, c)
  ELSE IF m \in ActionMessages /\ s.agents[c].joined
    THEN [s EXCEPT !.agents[c] = handleAction(@, m)]
  ELSE s

\* an exception that leaves the 'message' listener ends the process
Caught_Rethrown(s) == [s EXCEPT !.alive = FALSE, !.outcome = "uncaught", !.at = s.tick]

\* catch (e) { console.error('Invalid message:', e) }
Caught(s) == [s EXCEPT !.outcome = "caught", !.at = s.tick]

\* ws.on('message', ...): try { JSON.parse; handleMessage } catch
onMessage(s, c, m) ==
  IF parse_throws(m) \/ handleMessage_throws(s, c, m)
    THEN Caught(s)
    ELSE [handleMessage(s, c, m) EXCEPT !.outcome = "handled", !.at = s.tick]

\* the chunks of the window that handleAuth loads: getChunksAround(position, 2)
\* for a spawn point within 5 blocks of the origin, at ground level
SpawnChunks ==
  {coord \in WindowCoords : coord.cx \in -3..2 /\ coord.cy \in 2..6 /\ coord.cz \in -3..2}

\* getChunk for each chunk of coords
RECURSIVE World_getChunks(_, _, _, _)
World_getChunks(map, nz, coords, rnds) ==
  IF coords = {} THEN map
  ELSE LET coord == CHOOSE k \in coords : TRUE
       IN World_getChunks(World_getChunk(map, nz, coord, rnds[coord]), nz,
                          coords \ {coord}, rnds)

\* the most auth messages followed on one connection
MaxAuths == 2

\* a connection sends message m
OnMessage(c, m) ==
  /\ mode = "continuous"
  /\ sim.alive
  /\ m = "auth" => NewId(sim, c) <= MaxAuths
  /\ sim' = onMessage(sim, c, m)
  /\ IF m = "auth"
       THEN \E rnds \in [SpawnChunks -> UNION {Draws(k) : k \in SpawnChunks}] :
              /\ \A k \in SpawnChunks : rnds[k] \in Draws(k)
              /\ chunks' = World_getChunks(chunks, noise, SpawnChunks, rnds)
       ELSE chunks' = chunks
  /\ UNCHANGED <<mode, noise, generated, phys, discVars, modifiedChunks, disk, last,
                 steps, flush>>

\* newPos = position + velocity * dt; isSolid of a NaN coordinate is false
\* (blocks[NaN] is undefined, BlockDefinitions[undefined]?.solid ?? false),
\* so a NaN position is stored; then velocity *= 0.8
Move(p, v) == IF p = "NaN" \/ v = "NaN" THEN "NaN" ELSE "number"

\* the body of the loop of update() for one agent
updateAgent(agent) ==
  IF ~agent.joined THEN agent
  ELSE [agent EXCEPT !.px = Move(agent.px, agent.vx),
                     !.pz = Move(agent.pz, agent.vz),
                     !.moved = @ + 1]

\* update(): the callback of the tick timer.  The terrain it reads lies in
\* the chunks handleAuth has loaded.
Update ==
  /\ mode = "continuous"
  /\ sim.alive
  /\ sim.tick < MaxTicks
  /\ sim' = [sim EXCEPT !.tick = @ + 1,
                        !.agents = [c \in Clients |-> updateAgent(sim.agents[c])]]
  /\ UNCHANGED <<mode, noise, generated, phys, discVars, contVars>>

\* ws.on('close', ...): the agent of the connection leaves
Close(c) ==
  /\ mode = "continuous"
  /\ sim.alive
  /\ sim.agents[c].joined
  /\ sim' = [sim EXCEPT !.agents[c] = NoAgent,
                        !.map = @ \ {<<c, sim.agents[c].id>>}]
  /\ UNCHANGED <<mode, noise, generated, phys, discVars, contVars>>

InitLoop ==
  /\ mode = "continuous"
  /\ noise = SimplexNoise(DefaultSeed)
  /\ Fresh

\* a connection sends message m; auth is sent by a connection without agent
Hears(c, m) ==
  /\ m = "auth" => ~sim.agents[c].joined
  /\ OnMessage(c, m)

NextLoop ==
  \/ \E c \in Clients, m \in Messages : Hears(c, m)
  \/ Update
  \/ \E c \in Clients : Close(c)

SpecLoop == InitLoop /\ [][NextLoop]_vars

\* setInterval(() => this.update(), TICK_MS): the timer fires as long as the
\* process runs
SpecLoopFair == SpecLoop /\ WF_vars(Update)

\* connections that authenticate any number of times, move and close
NextAgents ==
  \/ \E c \in Clients, m \in {"auth", "move", "move_empty"} : OnMessage(c, m)
  \/ Update
  \/ \E c \in Clients : Close(c)

SpecAgents == InitLoop /\ [][NextAgents]_vars

-----------------------------------------------------------------------------
(* Discrete mode: POST /agent/action, case "batch_place".  The handler      *)
(* validates every item, groups the items by chunk, loads the chunks with   *)
(* one getOrGenerateMany mutation, and then, chunk by chunk, places the     *)
(* items of the chunk in its copy and saves the chunk (one mutation each).  *)

MaxBatch == 4

\* the items a batch is made of: stone and a red flower (not solid) at
\* (5,65,5), which is air; stone at (5,64,5), which holds the stone of the
\* spawn platform; stone at (-1,65,-1), air in another chunk; bedrock, which
\* is not buildable; and an item whose x is not a number
BatchItems ==
  {[pos |-> JsonPos(<<5, 65, 5>>), blockType |-> Num(STONE)],
   [pos |-> JsonPos(<<5, 65, 5>>), blockType |-> Num(FLOWER_RED)],
   [pos |-> JsonPos(<<5, 64, 5>>), blockType |-> Num(STONE)],
   [pos |-> JsonPos(<<-1, 65, -1>>), blockType |-> Num(STONE)],
   [pos |-> JsonPos(<<-1, 65, -1>>), blockType |-> Num(BEDROCK)],
   [pos |-> <<Str, Num(65), Num(5)>>, blockType |-> Num(STONE)]}

\* an array of n elements that repeats the elements of cycle in order
Repeated(cycle, n) == [k \in 1..n |-> cycle[((k - 1) % Len(cycle)) + 1]]

\* the lengths at the cap: 100 elements and 101
CapLengths == {BATCH_CAP, BATCH_CAP + 1}

\* bodies at the cap: stone at (5,65,5), (5,64,5) and (-1,65,-1) in turn
LongBatchBodies ==
  {[isArray |-> TRUE,
    blocks |-> Repeated(<<[pos |-> JsonPos(<<5, 65, 5>>), blockType |-> Num(STONE)],
                          [pos |-> JsonPos(<<5, 64, 5>>), blockType |-> Num(STONE)],
                          [pos |-> JsonPos(<<-1, 65, -1>>), blockType |-> Num(STONE)]>>,
                        n)] : n \in CapLengths}

\* the request bodies: every array of at most MaxBatch items, the bodies at
\* the cap, and a body without an array
BatchBodies ==
  {[isArray |-> TRUE, blocks |-> b] :
     b \in UNION {[1..n -> BatchItems] : n \in 0..MaxBatch}}
  \cup LongBatchBodies \cup {NoBody}

\* for (const item of items) acc = Step(acc, item), over items[lo..hi]: the
\* first half of the range is run to its end, then the second half on its
\* result, so that an array of 100 elements nests seven deep, not 100
RECURSIVE ForEach(_, _, _, _, _)
ForEach(Step(_, _), items, lo, hi, acc) ==
  IF lo > hi THEN acc
  ELSE IF lo = hi THEN Step(acc, items[lo])
  ELSE LET mid == (lo + hi) \div 2
       IN CHOOSE r \in {ForEach(Step, items, mid + 1, hi, a) :
                          a \in {ForEach(Step, items, lo, mid, acc)}} : TRUE

\* one pass of the validation loop; an answer already given is kept (return)
ValidateBlock(answer, b) ==
  IF answer # "ok" THEN answer
  ELSE IF BadCoords(b.pos) THEN "coords"
  ELSE IF BadBlockType(b.blockType) THEN "blocktype"
  ELSE "ok"

\* "Validate all blocks first": the answer of the first item that fails
BatchValidation(items, k) == ForEach(ValidateBlock, items, k, Len(items), "ok")

\* the entry pushed for item b: {...b, localX, localY, localZ}
GroupEntry(b) == [pos |-> b.pos, blockType |-> b.blockType, local |-> ReqLocal(b.pos)]

\* the Map after entry e is pushed to the list of the chunk with this key
PushToGroup(groups, key, e) ==
  IF \E g \in 1..Len(groups) : groups[g].key = key
    THEN LET g == CHOOSE h \in 1..Len(groups) : groups[h].key = key
         IN [groups EXCEPT ![g].blocks = Append(@, e)]
    ELSE Append(groups, [key |-> key, blocks |-> <<e>>])

\* a push that replaces the list of the chunk
OverwriteGroup(groups, b) ==
  LET key == chunkKey(ReqCoord(b.pos))
  IN IF \E g \in 1..Len(groups) : groups[g].key = key
       THEN LET g == CHOOSE h \in 1..Len(groups) : groups[h].key = key
            IN [groups EXCEPT ![g].blocks = <<GroupEntry(b)>>]
       ELSE Append(groups, [key |-> key, blocks |-> <<GroupEntry(b)>>])

\* grouping that replaces the list of a chunk instead of pushing to it
GroupByChunk_Overwrite(items, k, groups) ==
  ForEach(OverwriteGroup, items, k, Len(items), groups)

\* one pass of the grouping loop of batch_place
GroupBlock(groups, b) == PushToGroup(groups, chunkKey(ReqCoord(b.pos)), GroupEntry(b))

\* "Group blocks by chunk": chunkBlocks, a Map in insertion order
GroupByChunk(items, k, groups) == ForEach(GroupBlock, items, k, Len(items), groups)

\* Array.from(chunkBlocks.keys()).map(key => ({key, cx, cy, cz}))
BatchCoords(groups) ==
  [g \in 1..Len(groups) |->
     [key |-> groups[g].key, coord |-> parseChunkKey(groups[g].key)]]

\* one pass of the inner loop of batch_place: acc = [blocks, placed, skipped]
PlaceOne(acc, b) ==
  LET currentBlock == req_getBlockAt(acc.blocks, b.pos)
  IN IF PlaceOccupied(currentBlock)
       THEN [acc EXCEPT !.skipped = @ + 1]
       ELSE [acc EXCEPT !.blocks = req_setBlockAt(@, b.pos, b.blockType.v),
                        !.placed = @ + 1]

\* the inner loop over blocksInChunk
PlaceInChunk(acc, blocksInChunk, k) ==
  ForEach(PlaceOne, blocksInChunk, k, Len(blocksInChunk), acc)

BatchRespond(c, body, status, error) ==
  [Respond(c, "batch_place", <<>>, Num(AIR), status, error) EXCEPT !.body = body]

\* the cap test made one element too strict
OverCap_Inclusive(n) == n >= BATCH_CAP

\* blockPlacements.length > 100, positions.length > 100
OverCap(n) == n > BATCH_CAP

\* case "batch_place", up to the first call of api.chunks.save
HttpBatchPlace(c, body) ==
  /\ CanStart(c)
  /\ IF ~body.isArray
       THEN /\ req' = [req EXCEPT ![c] = BatchRespond(c, body, 400, "noarray")]
            /\ db' = db
     ELSE IF OverCap(Len(body.blocks))
       THEN /\ req' = [req EXCEPT ![c] = BatchRespond(c, body, 400, "cap")]
            /\ db' = db
     ELSE IF BatchValidation(body.blocks, 1) # "ok"
       THEN /\ req' = [req EXCEPT ![c] =
                      BatchRespond(c, body, 400, BatchValidation(body.blocks, 1))]
            /\ db' = db
     ELSE LET groups == GroupByChunk(body.blocks, 1, <<>>)
              coords == BatchCoords(groups)
          IN IF getOrGenerateMany_throws(db, coords)
               THEN /\ req' = [req EXCEPT ![c] = BatchRespond(c, body, 500, "throw")]
                    /\ db' = db
             ELSE /\ db' = getOrGenerateMany_db(db, noise, coords)
                  /\ req' = [req EXCEPT ![c] =
                       IF groups = <<>>
                         THEN BatchRespond(c, body, 200, "")
                         ELSE [IdleReq EXCEPT
                                 !.pc = "batch", !.type = "batch_place", !.body = body,
                                 !.groups = groups,
                                 !.results = [g \in 1..Len(groups) |->
                                    getOrGenerateMany_ret(db, noise, coords,
                                                          groups[g].key).blocksBase64],
                                 !.next = 1, !.after = DoneClients]]
  /\ UNCHANGED <<envVars, contVars>>

\* one iteration of the loop over chunkBlocks: the items of the chunk are
\* placed in the copy loaded at the start, and the chunk is saved; after the
\* last chunk the counts are returned
HttpBatchSave(c) ==
  /\ mode = "discrete"
  /\ req[c].pc = "batch"
  /\ LET g == req[c].next
         key == req[c].groups[g].key
         r == PlaceInChunk([blocks |-> decodeBlocks(req[c].results[g]),
                            placed |-> req[c].placed, skipped |-> req[c].skipped],
                           req[c].groups[g].blocks, 1)
     IN IF UniqueThrows(db, key)
          THEN /\ db' = db
               /\ req' = [req EXCEPT ![c].pc = "done", ![c].status = 500,
                                     ![c].error = "throw"]
          ELSE /\ db' = save(db, key, parseChunkKey(key), encodeBlocks(r.blocks))
               /\ req' = [req EXCEPT
                    ![c].placed = r.placed, ![c].skipped = r.skipped,
                    ![c].next = g + 1,
                    ![c].pc = IF g = Len(req[c].groups) THEN "done" ELSE "batch",
                    ![c].status = IF g = Len(req[c].groups) THEN 200 ELSE 0]
  /\ UNCHANGED <<envVars, contVars>>

-----------------------------------------------------------------------------
(* Discrete mode: POST /agent/action, case "batch_break".  The positions    *)
(* are validated, grouped by chunk and loaded as for batch_place; every     *)
(* position whose block is neither air nor bedrock is set to air, and the   *)
(* chunk is saved.  Only the broken blocks are counted.                     *)

\* the positions a batch_break is made of: (5,64,5), stone of the spawn
\* platform; (5,65,5), air; (5,0,5), bedrock; (-1,65,-1), air in another
\* chunk; (7,71,12), the wood of a tree; and a position whose x is not a
\* number
BreakItems ==
  {[pos |-> JsonPos(p)] : p \in Window} \cup {[pos |-> <<Str, Num(65), Num(5)>>]}

\* bodies at the cap: (5,64,5), (5,65,5) and (7,71,12) in turn
LongBreakBodies ==
  {[isArray |-> TRUE,
    blocks |-> Repeated(<<[pos |-> JsonPos(<<5, 64, 5>>)],
                          [pos |-> JsonPos(<<5, 65, 5>>)],
                          [pos |-> JsonPos(<<7, 71, 12>>)]>>,
                        n)] : n \in CapLengths}

\* the request bodies: every array of at most MaxBatch positions, the
\* bodies at the cap, and a body without an array
BreakBodies ==
  {[isArray |-> TRUE, blocks |-> b] :
     b \in UNION {[1..n -> BreakItems] : n \in 0..MaxBatch}}
  \cup LongBreakBodies \cup {NoBody}

\* one pass of "Validate all positions first"
ValidatePosition(answer, p) ==
  IF answer # "ok" THEN answer
  ELSE IF BadCoords(p.pos) THEN "coords"
  ELSE "ok"

BreakValidation(positions, k) ==
  ForEach(ValidatePosition, positions, k, Len(positions), "ok")

\* one pass of "Group positions by chunk": {...p, localX, localY, localZ} is
\* pushed to the list of its chunk
GroupPosition(groups, p) ==
  PushToGroup(groups, chunkKey(ReqCoord(p.pos)),
              [pos |-> p.pos, local |-> ReqLocal(p.pos)])

\* chunkPositions, a Map in insertion order
GroupPositions(positions, k, groups) ==
  ForEach(GroupPosition, positions, k, Len(positions), groups)

\* one pass of the inner loop of batch_break: acc = [blocks, broken]
BreakOne(acc, p) ==
  LET currentBlock == req_getBlockAt(acc.blocks, p.pos)
  IN IF currentBlock # AIR /\ currentBlock # BEDROCK
       THEN [acc EXCEPT !.blocks = req_setBlockAt(@, p.pos, AIR),
                        !.broken = @ + 1]
       ELSE acc

\* the inner loop over positionsInChunk
BreakInChunk(acc, positionsInChunk, k) ==
  ForEach(BreakOne, positionsInChunk, k, Len(positionsInChunk), acc)

BreakRespond(c, body, status, error) ==
  [Respond(c, "batch_break", <<>>, Num(AIR), status, error) EXCEPT !.body = body]

\* case "batch_break", up to the first call of api.chunks.save
HttpBatchBreak(c, body) ==
  /\ CanStart(c)
  /\ IF ~body.isArray
       THEN /\ req' = [req EXCEPT ![c] = BreakRespond(c, body, 400, "noarray")]
            /\ db' = db
     ELSE IF OverCap(Len(body.blocks))
       THEN /\ req' = [req EXCEPT ![c] = BreakRespond(c, body, 400, "cap")]
            /\ db' = db
     ELSE IF BreakValidation(body.blocks, 1) # "ok"
       THEN /\ req' = [req EXCEPT ![c] =
                      BreakRespond(c, body, 400, BreakValidation(body.blocks, 1))]
            /\ db' = db
     ELSE LET groups == GroupPositions(body.blocks, 1, <<>>)
              coords == BatchCoords(groups)
          IN IF getOrGenerateMany_throws(db, coords)
               THEN /\ req' = [req EXCEPT ![c] = BreakRespond(c, body, 500, "throw")]
                    /\ db' = db
             ELSE /\ db' = getOrGenerateMany_db(db, noise, coords)
                  /\ req' = [req EXCEPT ![c] =
                       IF groups = <<>>
                         THEN BreakRespond(c, body, 200, "")
                         ELSE [IdleReq EXCEPT
                                 !.pc = "batchbreak", !.type = "batch_break",
                                 !.body = body, !.groups = groups,
                                 !.results = [g \in 1..Len(groups) |->
                                    getOrGenerateMany_ret(db, noise, coords,
                                                          groups[g].key).blocksBase64],
                                 !.next = 1, !.after = DoneClients]]
  /\ UNCHANGED <<envVars, contVars>>

\* one iteration of the loop over chunkPositions: the positions of the
\* chunk are broken in the copy loaded at the start, and the chunk is
\* saved; after the last chunk the count is returned
HttpBatchBreakSave(c) ==
  /\ mode = "discrete"
  /\ req[c].pc = "batchbreak"
  /\ LET g == req[c].next
         key == req[c].groups[g].key
         r == BreakInChunk([blocks |-> decodeBlocks(req[c].results[g]),
                            broken |-> req[c].broken],
                           req[c].groups[g].blocks, 1)
     IN IF UniqueThrows(db, key)
          THEN /\ db' = db
               /\ req' = [req EXCEPT ![c].pc = "done", ![c].status = 500,
                                     ![c].error = "throw"]
          ELSE /\ db' = save(db, key, parseChunkKey(key), encodeBlocks(r.blocks))
               /\ req' = [req EXCEPT
                    ![c].broken = r.broken,
                    ![c].next = g + 1,
                    ![c].pc = IF g = Len(req[c].groups) THEN "done" ELSE "batchbreak",
                    ![c].status = IF g = Len(req[c].groups) THEN 200 ELSE 0]
  /\ UNCHANGED <<envVars, contVars>>

\* the keys of the JSON object a finished request is answered with
ResponseFields(r) ==
  IF r.status # 200 THEN {"error"}
  ELSE IF r.type = "batch_place" THEN {"success", "placed", "skipped", "chunks"}
  ELSE IF r.type = "batch_break" THEN {"success", "broken", "chunks"}
  ELSE IF r.type = "place" THEN {"success", "placed"}
  ELSE IF r.type = "scan" THEN {"region", "blocks", "count"}
  ELSE {"success", "broken"}

\* one batch request against a fresh store
InitBatch ==
  /\ mode = "discrete"
  /\ noise = SimplexNoise(DefaultSeed)
  /\ Fresh

\* the first request made: a batch_place with any of the bodies
FirstBatchPlace(c) ==
  /\ \A d \in Clients : req[d].pc = "idle"
  /\ \E body \in BatchBodies : HttpBatchPlace(c, body)

\* the first request made: a batch_break with any of the bodies
FirstBatchBreak(c) ==
  /\ \A d \in Clients : req[d].pc = "idle"
  /\ \E body \in BreakBodies : HttpBatchBreak(c, body)

NextBatch ==
  \/ \E c \in Clients : FirstBatchPlace(c)
  \/ \E c \in Clients : HttpBatchSave(c)
  \/ \E c \in Clients : FirstBatchBreak(c)
  \/ \E c \in Clients : HttpBatchBreakSave(c)

SpecBatch == InitBatch /\ [][NextBatch]_vars

-----------------------------------------------------------------------------
(* Requests with malformed coordinates: POST /agent/action whose x, y and z
   are not three integers *)

\* coordinates that are not three integers: x a string, y missing,
\* (5.5, 65, 5), (13, 64.5, 5) and (5, 72, 4.5)
MalformedCoords ==
  {<<Str, Num(65), Num(5)>>,
   <<Num(5), Undefined, Num(5)>>,
   <<Frac(5), Num(65), Num(5)>>,
   <<Num(13), Frac(64), Num(5)>>,
   <<Num(5), Num(72), Frac(4)>>}

\* the arrays of one or two elements of items
ShortArrays(items) ==
  {[isArray |-> TRUE, blocks |-> <<a>>] : a \in items}
    \cup {[isArray |-> TRUE, blocks |-> <<a, b>>] : a \in items, b \in items}

\* batch_place bodies of stone at malformed coordinates
MalformedPlaceBodies ==
  ShortArrays({[pos |-> pos, blockType |-> Num(STONE)] : pos \in MalformedCoords})

\* batch_break bodies of malformed coordinates
MalformedBreakBodies ==
  ShortArrays({[pos |-> pos] : pos \in MalformedCoords})

InitMalformed ==
  /\ mode = "discrete"
  /\ noise = SimplexNoise(DefaultSeed)
  /\ Fresh

MalformedPlace(c) ==
  /\ req[c].pc = "idle"
  /\ \E pos \in MalformedCoords, blockType \in GoodBlockTypes :
       HttpPlace(c, pos, blockType)

MalformedBreak(c) ==
  /\ req[c].pc = "idle"
  /\ \E pos \in MalformedCoords : HttpBreak(c, pos)

MalformedBatchPlace(c) ==
  /\ req[c].pc = "idle"
  /\ \E body \in MalformedPlaceBodies : HttpBatchPlace(c, body)

MalformedBatchBreak(c) ==
  /\ req[c].pc = "idle"
  /\ \E body \in MalformedBreakBodies : HttpBatchBreak(c, body)

NextMalformed ==
  \/ \E c \in Clients : MalformedPlace(c)
  \/ \E c \in Clients : MalformedBreak(c)
  \/ \E c \in Clients : MalformedBatchPlace(c)
  \/ \E c \in Clients : MalformedBatchBreak(c)
  \/ \E c \in Clients : HttpSave(c)
  \/ \E c \in Clients : HttpBatchSave(c)
  \/ \E c \in Clients : HttpBatchBreakSave(c)

SpecMalformed == InitMalformed /\ [][NextMalformed]_vars

-----------------------------------------------------------------------------
(* Discrete mode: GET /agent/scan of an authenticated agent.  The six       *)
(* query parameters are parsed, the region is normalized and its size       *)
(* checked, the chunks of the region are loaded with one getOrGenerateMany  *)
(* mutation, and the three nested loops visit every position of the region. *)

SCAN_MAX == 32

IsDigit(ch) == \E d \in 1..Len(Digits) : Digits[d] = ch

\* the longest prefix of s made of decimal digits
DigitPrefix(s) ==
  SubSeq(s, 1, CHOOSE n \in 0..Len(s) :
                 /\ \A i \in 1..n : IsDigit(s[i])
                 /\ n = Len(s) \/ ~IsDigit(s[n + 1]))

NaN == [nan |-> TRUE, v |-> 0]

\* parseInt(s) for a text without leading blanks or a 0x prefix: an optional
\* sign, then the leading digits; NaN when there is none
parseInt(s) ==
  LET signed == s # <<>> /\ Head(s) \in {"-", "+"}
      digits == DigitPrefix(IF signed THEN Tail(s) ELSE s)
  IN IF digits = <<>> THEN NaN
     ELSE [nan |-> FALSE,
           v |-> IF signed /\ Head(s) = "-" THEN -CharsToNat(digits, 0)
                 ELSE CharsToNat(digits, 0)]

\* Math.min, Math.max
MathMin(a, b) == IF a <= b THEN a ELSE b
MathMax(a, b) == IF a >= b THEN a ELSE b

\* the values x takes in for (let x = min; x <= max; x += CHUNK_SIZE)
ChunkSteps(min, max) ==
  [k \in 1..((max - min) \div CHUNK_SIZE + 1) |-> min + (k - 1) * CHUNK_SIZE]

\* "Find all chunks needed" and "Also add edge chunks": chunkKeys, a Set in
\* insertion order
ScanChunkKeys(min, max) ==
  LET sx == ChunkSteps(min[1], max[1])
      sy == ChunkSteps(min[2], max[2])
      sz == ChunkSteps(min[3], max[3])
      loop == [i \in 1..(Len(sx) * Len(sy) * Len(sz)) |->
                 chunkKey(worldToChunk(sx[((i - 1) \div (Len(sy) * Len(sz))) + 1],
                                       sy[(((i - 1) \div Len(sz)) % Len(sy)) + 1],
                                       sz[((i - 1) % Len(sz)) + 1]))]
      edge == chunkKey(worldToChunk(max[1], max[2], max[3]))
  IN IF \E i \in 1..Len(loop) : loop[i] = edge THEN loop ELSE Append(loop, edge)

\* Array.from(chunkKeys).map(key => ({key, cx, cy, cz}))
ScanCoords(keys) ==
  [i \in 1..Len(keys) |-> [key |-> keys[i], coord |-> parseChunkKey(keys[i])]]

\* "Scan region": the entries pushed to foundBlocks for the positions of the
\* window, read from the chunks that were loaded
FoundBlocks(table, coords, min, max) ==
  {[pos |-> p,
    blockType |-> http_getBlockAt(
        decodeBlocks(getOrGenerateMany_ret(table, noise, coords,
                                           chunkKey(PosChunk(p))).blocksBase64),
        PosLocal(p).x, PosLocal(p).y, PosLocal(p).z)] :
     p \in {q \in Window :
              /\ \A a \in 1..3 : min[a] <= q[a] /\ q[a] <= max[a]
              /\ \E i \in 1..Len(coords) : coords[i].key = chunkKey(PosChunk(q))
              /\ http_getBlockAt(
                    decodeBlocks(getOrGenerateMany_ret(table, noise, coords,
                                                       chunkKey(PosChunk(q))).blocksBase64),
                    PosLocal(q).x, PosLocal(q).y, PosLocal(q).z) # AIR}}

ScanRespond(c, status, error) == Respond(c, "scan", <<>>, Num(AIR), status, error)

\* the handler of GET /agent/scan; q holds the texts of x1, y1, z1, x2, y2, z2
HttpScan(c, q) ==
  /\ CanStart(c)
  /\ LET n == [i \in 1..6 |-> parseInt(q[i])]
     IN IF \E i \in 1..6 : n[i].nan
          THEN /\ req' = [req EXCEPT ![c] = ScanRespond(c, 400, "params")]
               /\ db' = db
        ELSE LET min == [a \in 1..3 |-> MathMin(n[a].v, n[a + 3].v)]
                 max == [a \in 1..3 |-> MathMax(n[a].v, n[a + 3].v)]
                 coords == ScanCoords(ScanChunkKeys(min, max))
             IN IF \E a \in 1..3 : max[a] - min[a] > SCAN_MAX
                  THEN /\ req' = [req EXCEPT ![c] = ScanRespond(c, 400, "toolarge")]
                       /\ db' = db
                ELSE IF getOrGenerateMany_throws(db, coords)
                  THEN /\ req' = [req EXCEPT ![c] = ScanRespond(c, 500, "throw")]
                       /\ db' = db
                ELSE /\ db' = getOrGenerateMany_db(db, noise, coords)
                     /\ req' = [req EXCEPT ![c] =
                          [ScanRespond(c, 200, "") EXCEPT
                             !.scan = [xs |-> min[1]..max[1], ys |-> min[2]..max[2],
                                       zs |-> min[3]..max[3],
                                       found |-> FoundBlocks(db, coords, min, max)]]]
  /\ UNCHANGED <<envVars, contVars>>

\* the texts of x1 and x2: -1, 0, 31, 32, "7x" and a missing parameter
ScanXs ==
  {NumberToString(-1), NumberToString(0), NumberToString(31), NumberToString(32),
   <<"7", "x">>, <<>>}

\* the texts of y1 and y2, and of z1 and z2
ScanYs == {NumberToString(64), NumberToString(65), NumberToString(97)}
ScanZs == {NumberToString(-1), NumberToString(12)}

ScanQueries ==
  {<<x1, y1, z1, x2, y2, z2>> :
     x1 \in ScanXs, y1 \in ScanYs, z1 \in ScanZs,
     x2 \in ScanXs, y2 \in ScanYs, z2 \in ScanZs}

\* one scan request against a fresh store
InitScan ==
  /\ mode = "discrete"
  /\ noise = SimplexNoise(DefaultSeed)
  /\ Fresh

FirstScan(c) ==
  /\ \A d \in Clients : req[d].pc = "idle"
  /\ \E q \in ScanQueries : HttpScan(c, q)

NextScan == \E c \in Clients : FirstScan(c)

SpecScan == InitScan /\ [][NextScan]_vars

-----------------------------------------------------------------------------
(* The generators alone: generateChunk of convex/lib/terrain.ts and         *)
(* TerrainGenerator.generateChunk of the world package, called directly.    *)
(* Two TerrainGenerator instances are constructed with the same seed.       *)

MaxGenerations == 2

Seeds == {DefaultSeed, 7}

Generators == {1, 2}

genVars == <<db, req, chunks, modifiedChunks, disk, last, steps, flush, sim, phys>>

CanGenerate ==
  /\ mode = "generate"
  /\ Len(generated) < MaxGenerations

\* generator instance g: this.generateChunk(coord)
GenerateWorld(g, coord) ==
  /\ CanGenerate
  /\ \E rnd \in RandomDrawsOf[coord] :
       generated' = Append(generated,
         [by |-> "TerrainGenerator", instance |-> g, coord |-> coord,
          blocks |-> Gen_generateChunk(noise, coord, rnd).blocks])
  /\ UNCHANGED <<mode, noise, genVars>>

\* generateChunk(cx, cy, cz, {seed}) of convex/lib/terrain.ts
GenerateConvex(coord) ==
  /\ CanGenerate
  /\ generated' = Append(generated,
       [by |-> "generateChunk", instance |-> 0, coord |-> coord,
        blocks |-> decodeBlocks(generateChunk(noise, coord))])
  /\ UNCHANGED <<mode, noise, genVars>>

InitGen ==
  /\ mode = "generate"
  /\ noise \in {SimplexNoise(seed) : seed \in Seeds}
  /\ Fresh

NextGen ==
  \/ \E g \in Generators, coord \in WindowCoords : GenerateWorld(g, coord)
  \/ \E coord \in WindowCoords : GenerateConvex(coord)

SpecGen == InitGen /\ [][NextGen]_vars

-----------------------------------------------------------------------------
(* The bottom layer of a generated chunk: local (x, 0, z) for every x and z *)
(* of the chunk, over the chunks of the column of the origin.               *)

\* Math.floor(baseHeight + fbm(x * 0.01, z * 0.01, 4) * 32) of seed 42 in
\* IEEE doubles, for the columns x, z in 0..15: row z + 1, entry x + 1
OriginHeights ==
  <<<<64, 65, 66, 68, 70, 71, 72, 74, 75, 75, 76, 77, 77, 78, 78, 79>>,
    <<63, 64, 66, 67, 69, 70, 72, 73, 74, 75, 76, 77, 77, 78, 78, 78>>,
    <<62, 64, 65, 67, 68, 70, 71, 73, 74, 75, 76, 76, 77, 78, 78, 78>>,
    <<62, 63, 64, 66, 68, 69, 71, 72, 73, 74, 75, 76, 77, 77, 78, 78>>,
    <<61, 63, 64, 65, 67, 69, 70, 71, 73, 74, 75, 75, 76, 77, 77, 78>>,
    <<61, 62, 63, 65, 66, 68, 69, 71, 72, 73, 74, 75, 76, 76, 77, 77>>,
    <<61, 62, 63, 64, 66, 67, 69, 70, 71, 72, 73, 74, 75, 76, 76, 77>>,
    <<61, 62, 63, 64, 65, 66, 68, 69, 71, 72, 73, 74, 74, 75, 76, 76>>,
    <<61, 62, 62, 63, 65, 66, 67, 68, 70, 71, 72, 73, 74, 74, 75, 76>>,
    <<61, 61, 62, 63, 64, 65, 66, 68, 69, 70, 71, 72, 73, 74, 74, 75>>,
    <<61, 61, 62, 63, 64, 65, 66, 67, 69, 70, 71, 72, 73, 73, 74, 74>>,
    <<61, 61, 61, 62, 63, 64, 65, 67, 68, 69, 70, 71, 72, 73, 73, 74>>,
    <<60, 61, 61, 62, 63, 64, 65, 66, 68, 69, 70, 71, 72, 72, 73, 73>>,
    <<60, 61, 61, 62, 62, 63, 65, 66, 67, 68, 69, 70, 71, 72, 72, 73>>,
    <<60, 60, 61, 61, 62, 63, 64, 66, 67, 68, 69, 70, 71, 71, 72, 72>>,
    <<60, 61, 61, 61, 62, 63, 64, 65, 66, 67, 68, 69, 70, 71, 71, 72>>>>

\* the noise of seed 42 over every column of the chunks at cx = 0, cz = 0:
\* of the nine tree candidates, treeNoise is 0.3 or more at (2,2), (2,7),
\* (2,12), (7,2), (7,7) and (7,12); seededRandom * 2 floors to 1 at (2,2),
\* (7,12) and (12,12)
OriginNoise ==
  [SimplexNoise(DefaultSeed) EXCEPT
     !.height = [c \in (0..(CHUNK_SIZE - 1)) \X (0..(CHUNK_SIZE - 1)) |->
                   OriginHeights[c[2] + 1][c[1] + 1]],
     !.tree = {<<2, 2>>, <<2, 7>>, <<2, 12>>, <<7, 2>>, <<7, 7>>, <<7, 12>>},
     !.tall = {<<2, 2>>, <<7, 12>>, <<12, 12>>}]

\* the indices of local (x, 0, z)
FloorIdx ==
  {coordToIndex(x, 0, z) : x \in 0..(CHUNK_SIZE - 1), z \in 0..(CHUNK_SIZE - 1)}

\* the chunks generated: (0, cy, 0) from the bottom of the world up to the
\* chunk of the spawn platform
FloorChunks == {[cx |-> 0, cy |-> cy, cz |-> 0] : cy \in 0..4}

\* generateChunk(cx, cy, cz) of convex/lib/terrain.ts, its bottom layer
generateFloor(nz, coord) ==
  encodeBlocks([i \in FloorIdx |-> terrain_blockAt(nz, coord, indexToCoord(i))])

\* TerrainGenerator.generateChunk(coord), its bottom layer
Gen_generateFloor(nz, coord, rnd) ==
  [i \in FloorIdx |-> Gen_blockAt(nz, coord, rnd, indexToCoord(i)) % 256]

\* the two, tabulated over the chunks generated and the draws of
\* Math.random() (all 0 or all 1)
ConvexFloors == [coord \in FloorChunks |-> decodeBlocks(generateFloor(OriginNoise, coord))]

WorldFloors ==
  [coord \in FloorChunks |->
     [draw \in {0, 1} |->
        Gen_generateFloor(OriginNoise, coord, [k \in 1..Len(TreeCandidates) |-> draw])]]

GenerateFloorConvex(coord) ==
  /\ CanGenerate
  /\ generated' = Append(generated,
       [by |-> "generateChunk", instance |-> 0, coord |-> coord,
        blocks |-> ConvexFloors[coord]])
  /\ UNCHANGED <<mode, noise, genVars>>

GenerateFloorWorld(g, coord) ==
  /\ CanGenerate
  /\ \E draw \in {0, 1} :
       generated' = Append(generated,
         [by |-> "TerrainGenerator", instance |-> g, coord |-> coord,
          blocks |-> WorldFloors[coord][draw]])
  /\ UNCHANGED <<mode, noise, genVars>>

InitFloor ==
  /\ mode = "generate"
  /\ noise = OriginNoise
  /\ Fresh

NextFloor ==
  \/ \E coord \in FloorChunks : GenerateFloorConvex(coord)
  \/ \E g \in Generators, coord \in FloorChunks : GenerateFloorWorld(g, coord)

SpecFloor == InitFloor /\ [][NextFloor]_vars

-----------------------------------------------------------------------------
(* Vocabulary of the properties *)

\* the registry's solid blocks, written out
SolidIds == {STONE, DIRT, GRASS, WOOD, LEAVES, SAND, BEDROCK}

\* the registry's buildable blocks, written out
BuildableIds == {STONE, DIRT, GRASS, WOOD, LEAVES, SAND, FLOWER_RED, FLOWER_YELLOW, TALL_GRASS}

\* discrete mode: the chunk a read of coord returns (the row, or fresh terrain)
CurrentChunk(table, coord) ==
  IF RowsByKey(table, chunkKey(coord)) # {}
    THEN table[Unique(table, chunkKey(coord))].blocksBase64
    ELSE generateChunk(noise, coord)

BlockIn(base64, p) == decodeBlocks(base64)[PosIndex(p)]

\* discrete mode: the block a read of world position p returns
StoredBlock(table, p) == BlockIn(CurrentChunk(table, PosChunk(p)), p)

GoodCoords(r) == r.pos # <<>> /\ \A i \in 1..3 : r.pos[i].t = "number"

ReqPos(r) == <<r.pos[1].v, r.pos[2].v, r.pos[3].v>>

\* the block a successful place or break leaves at its position
Effect(r) == IF r.type = "place" THEN r.blockType.v ELSE AIR

Succeeded(r) == r.pc = "done" /\ r.status = 200

\* client c starts its request in this step
Starts(c) == req[c].pc = "idle" /\ req'[c].pc # "idle"

\* continuous mode: this step handled operation op
Handles(op) == steps' = steps + 1 /\ last'.op = op

\* continuous mode: the block at p, when its chunk is loaded
LoadedBlock(map, p) == map[chunkKey(PosChunk(p))].blocks[PosIndex(p)]

\* continuous mode: the operation changed neither a loaded chunk nor the set
\* of modified chunks; a chunk it generated is as generated (not dirty)
WorldUntouched ==
  /\ modifiedChunks' = modifiedChunks
  /\ \A k \in DOMAIN chunks : k \in DOMAIN chunks' /\ chunks'[k] = chunks[k]
  /\ \A k \in DOMAIN chunks' \ DOMAIN chunks : ~chunks'[k].dirty

-----------------------------------------------------------------------------
(* C1: in discrete mode, when two place/break actions on different block    *)
(* positions of the same chunk execute concurrently and both have returned  *)
(* success, both modifications are present in the stored chunk.             *)

Concurrent(c1, c2) == c1 \notin req[c2].after /\ c2 \notin req[c1].after

C1_NoLostUpdate ==
  \A c1, c2 \in Clients :
    ( /\ c1 # c2
      /\ req[c1].type \in {"place", "break"} /\ req[c2].type \in {"place", "break"}
      /\ Succeeded(req[c1]) /\ Succeeded(req[c2])
      /\ Concurrent(c1, c2)
      /\ req[c1].key = req[c2].key
      /\ ReqPos(req[c1]) # ReqPos(req[c2]) )
    => /\ StoredBlock(db, ReqPos(req[c1])) = Effect(req[c1])
       /\ StoredBlock(db, ReqPos(req[c2])) = Effect(req[c2])

-----------------------------------------------------------------------------
(* C2: after any step, the store holds at most one entry per chunk key; a   *)
(* caller of getOrGenerate / getOrGenerateMany observes the content of the  *)
(* single stored entry, so two callers that read a chunk no request has     *)
(* saved observe the same content; World.getChunk returns the chunk already *)
(* in the map, unchanged, when there is one.                                *)

OneRowPerKey(table) ==
  \A i, j \in 1..Len(table) : table[i].key = table[j].key => i = j

Saved(key) ==
  \E c \in Clients : req[c].type \in {"place", "break"} /\ Succeeded(req[c]) /\ req[c].key = key

SameObservation ==
  \A c1, c2 \in Clients :
    ( /\ req[c1].seen # NoChunk /\ req[c2].seen # NoChunk
      /\ req[c1].key = req[c2].key
      /\ ~Saved(req[c1].key) )
    => req[c1].seen = req[c2].seen

C2_FirstAccess ==
  [][ /\ OneRowPerKey(db')
      /\ SameObservation'
      /\ \A c \in Clients :
           (Starts(c) /\ req'[c].seen # NoChunk) =>
             /\ Cardinality(RowsByKey(db', req'[c].key)) = 1
             /\ req'[c].seen = db'[Unique(db', req'[c].key)].blocksBase64
      /\ Handles("getChunk") =>
           /\ last'.pos \in DOMAIN chunks'
           /\ \A k \in DOMAIN chunks : k \in DOMAIN chunks' /\ chunks'[k] = chunks[k]
    ]_vars

\* two callers have observed the same chunk, one of them through getOrGenerate
C2_Witness ==
  \E c1, c2 \in Clients :
    /\ c1 # c2
    /\ req[c1].type = "get" /\ req[c1].status = 200
    /\ req[c2].seen # NoChunk
    /\ req[c1].key = req[c2].key
    /\ Cardinality(RowsByKey(db, req[c1].key)) = 1

-----------------------------------------------------------------------------
(* C3: for every seed and chunk coordinate, two generations of the chunk by *)
(* the same generator (the same TerrainGenerator instance or two instances  *)
(* of the same seed; the function generateChunk of convex/lib/terrain.ts)   *)
(* yield the same block buffer.                                             *)

C3_GenerationDeterministic ==
  \A i, j \in 1..Len(generated) :
    (generated[i].by = generated[j].by /\ generated[i].coord = generated[j].coord)
      => generated[i].blocks = generated[j].blocks

-----------------------------------------------------------------------------
(* C4: World.setBlockAt(x, y, z, AIR) at a position whose block is bedrock  *)
(* returns false and leaves that block and every chunk unchanged.           *)

C4_BedrockKept ==
  [][ (Handles("setBlockAt") /\ last'.blockId = AIR /\ last'.before = BEDROCK) =>
        /\ last'.ret = FALSE
        /\ LoadedBlock(chunks', last'.pos) = BEDROCK
        /\ WorldUntouched
    ]_vars

C4_Witness ==
  last.op = "setBlockAt" /\ last.blockId = AIR /\ last.before = BEDROCK

-----------------------------------------------------------------------------
(* C5: a place action (HTTP "place", WebSocket "place_block") whose target  *)
(* holds a solid block when the action reads it is answered with a failure  *)
(* and leaves the chunk of that position as it was.                         *)

\* discrete mode: c starts a place / break with numeric coordinates now
StartsAt(c, type) ==
  Starts(c) /\ req'[c].type = type /\ GoodCoords(req'[c])

\* discrete mode: the request of c is answered with a failure in this step
\* and the content of the chunk of its position is as before
FailsNow(c) ==
  /\ req'[c].pc = "done"
  /\ req'[c].status # 200
  /\ CurrentChunk(db', PosChunk(ReqPos(req'[c]))) = CurrentChunk(db, PosChunk(ReqPos(req'[c])))

C5_OccupiedPlaceFails ==
  [][ /\ \A c \in Clients :
           (StartsAt(c, "place") /\ StoredBlock(db, ReqPos(req'[c])) \in SolidIds)
             => FailsNow(c)
      /\ (Handles("place_block") /\ last'.before \in SolidIds) =>
           /\ last'.ret = FALSE
           /\ LoadedBlock(chunks', last'.pos) = last'.before
           /\ WorldUntouched
    ]_vars

\* a place with a buildable block was rejected as occupied
C5_Witness ==
  \E c \in Clients :
    /\ req[c].type = "place" /\ req[c].pc = "done" /\ req[c].error = "occupied"
    /\ ~BadBlockType(req[c].blockType)
    /\ StoredBlock(db, ReqPos(req[c])) \in SolidIds

-----------------------------------------------------------------------------
(* C6: a place action whose block id is not buildable (air, water, bedrock, *)
(* an unknown id) fails in both modes and leaves the world unchanged.       *)

C6_NonBuildablePlaceFails ==
  [][ /\ \A c \in Clients :
           ( /\ StartsAt(c, "place")
             /\ (IsNumber(req'[c].blockType) => req'[c].blockType.v \notin BuildableIds) )
             => FailsNow(c) /\ db' = db
      /\ (Handles("place_block") /\ last'.blockId \notin BuildableIds) =>
           /\ last'.ret = FALSE
           /\ WorldUntouched
    ]_vars

-----------------------------------------------------------------------------
(* C7: a break action (HTTP "break", WebSocket "break_block") whose target  *)
(* holds air or bedrock when the action reads it fails and writes nothing   *)
(* to the chunk.                                                            *)

C7_BreakAirOrBedrockFails ==
  [][ /\ \A c \in Clients :
           (StartsAt(c, "break") /\ StoredBlock(db, ReqPos(req'[c])) \in {AIR, BEDROCK})
             => FailsNow(c)
      /\ (Handles("break_block") /\ last'.before \in {AIR, BEDROCK}) =>
           /\ last'.ret = FALSE
           /\ WorldUntouched
    ]_vars

\* one break was rejected on bedrock and another on air
C7_Witness ==
  \E c1, c2 \in Clients :
    /\ req[c1].type = "break" /\ req[c1].pc = "done" /\ req[c1].error = "bedrock"
    /\ req[c2].type = "break" /\ req[c2].pc = "done" /\ req[c2].error = "air"

-----------------------------------------------------------------------------
(* C8: when a place of a solid buildable block at a position holding air    *)
(* has been answered, it has succeeded; a place at the same coordinate      *)
(* started after that answer, no other request touching the chunk, is       *)
(* rejected as occupied, and the first block is the one stored.             *)

\* c placed a solid buildable block at a position it read as air
PlacedOnAir(c) ==
  /\ req[c].type = "place" /\ req[c].pc = "done"
  /\ GoodCoords(req[c]) /\ ~BadBlockType(req[c].blockType)
  /\ req[c].blockType.v \in SolidIds
  /\ req[c].seen # NoChunk
  /\ BlockIn(req[c].seen, ReqPos(req[c])) = AIR

\* c2 started a place with a valid block at the coordinate of c1, after c1
\* was answered, and no third request touches the chunk
PlacesAgain(c1, c2) ==
  /\ c1 # c2
  /\ req[c2].type = "place" /\ c1 \in req[c2].after
  /\ GoodCoords(req[c2]) /\ ~BadBlockType(req[c2].blockType)
  /\ ReqPos(req[c2]) = ReqPos(req[c1])
  /\ \A c3 \in Clients \ {c1, c2} : req[c3].key # req[c1].key

C8_PlaceThenOccupied ==
  \A c1 \in Clients :
    PlacedOnAir(c1) =>
      /\ Succeeded(req[c1])
      /\ \A c2 \in Clients :
           PlacesAgain(c1, c2) =>
             /\ req[c2].pc = "done" /\ req[c2].status = 400
             /\ req[c2].error = "occupied"
             /\ StoredBlock(db, ReqPos(req[c1])) = req[c1].blockType.v

C8_Witness ==
  \E c1, c2 \in Clients :
    /\ PlacedOnAir(c1) /\ PlacesAgain(c1, c2)
    /\ ReqPos(req[c1]) = <<5, 65, 5>> /\ req[c1].blockType.v = STONE
    /\ req[c2].error = "occupied"

-----------------------------------------------------------------------------
(* C9: a batch_place of n well-formed items, n <= 100, answers success with *)
(* placed + skipped = n, skipped being the number of items whose target     *)
(* held a solid block when the items are applied one after the other, in    *)
(* the order of the request, under the rule of the single place.            *)

ItemPos(b) == <<b.pos[1].v, b.pos[2].v, b.pos[3].v>>

Rejectable(b) == BadCoords(b.pos) \/ BadBlockType(b.blockType)

\* the items from the k-th on applied in order to the world acc.w (the block
\* at each position of the window): an item that is rejectable, or whose
\* target is solid, is skipped and counted; any other is written
ApplyOne(acc, b) ==
  IF Rejectable(b) \/ acc.w[ItemPos(b)] \in SolidIds
    THEN [acc EXCEPT !.skipped = @ + 1]
    ELSE [acc EXCEPT !.w[ItemPos(b)] = b.blockType.v]

ApplyInOrder(items, k, acc) == ForEach(ApplyOne, items, k, Len(items), acc)

SkippedInOrder(items, w) == ApplyInOrder(items, 1, [w |-> w, skipped |-> 0]).skipped

WorldInOrder(items, w) == ApplyInOrder(items, 1, [w |-> w, skipped |-> 0]).w

\* the world a request finds in a fresh store: the generated terrain
FreshWorld == [p \in Window |-> StoredBlock(<<>>, p)]

BatchDone(c) ==
  /\ req[c].type = "batch_place" /\ req[c].pc = "done"
  /\ req[c].body.isArray
  /\ Len(req[c].body.blocks) <= BATCH_CAP

WellFormed(items) == \A k \in 1..Len(items) : ~Rejectable(items[k])

C9_BatchCounts ==
  \A c \in Clients :
    (BatchDone(c) /\ WellFormed(req[c].body.blocks)) =>
      /\ req[c].status = 200
      /\ req[c].placed + req[c].skipped = Len(req[c].body.blocks)
      /\ req[c].skipped = SkippedInOrder(req[c].body.blocks, FreshWorld)

\* three items placed and one skipped on the stone of the spawn platform
C9_Witness ==
  \E c \in Clients :
    /\ BatchDone(c) /\ WellFormed(req[c].body.blocks)
    /\ Len(req[c].body.blocks) = 4
    /\ \E k \in 1..4 : ItemPos(req[c].body.blocks[k]) = <<5, 64, 5>>
    /\ req[c].placed = 3 /\ req[c].skipped = 1

-----------------------------------------------------------------------------
(* C10: a batch_place holding an item that is rejectable on its own is not  *)
(* rejected as a whole: it answers success, the other items are applied     *)
(* under the rule of the single place, and the rejectable item is counted   *)
(* as skipped.                                                              *)

C10_BatchNotRejectedWhole ==
  \A c \in Clients :
    BatchDone(c) =>
      /\ req[c].status = 200
      /\ req[c].placed + req[c].skipped = Len(req[c].body.blocks)
      /\ req[c].skipped = SkippedInOrder(req[c].body.blocks, FreshWorld)
      /\ \A p \in Window :
           StoredBlock(db, p) = WorldInOrder(req[c].body.blocks, FreshWorld)[p]

-----------------------------------------------------------------------------
(* C11: a batch_break that is answered with success reports, next to the    *)
(* number of blocks broken, the number of positions skipped (air or         *)
(* bedrock), the two adding up to the number of positions submitted.        *)

BreakDone(c) ==
  /\ req[c].pc = "done"
  /\ req[c].type = "batch_break"
  /\ req[c].status = 200

\* the positions of a finished batch_break that held air or bedrock when
\* their turn came: the submitted positions less the broken ones
BreakSkipped(c) == Len(req[c].body.blocks) - req[c].broken

C11_BreakReportsSkipped ==
  \A c \in Clients :
    BreakDone(c) /\ BreakSkipped(c) > 0 =>
      {"broken", "skipped"} \subseteq ResponseFields(req[c])

-----------------------------------------------------------------------------
(* C12: a batch_place or batch_break of more than 100 operations is         *)
(* answered with the error object and status 400 and writes nothing to the  *)
(* store; one of exactly 100 well-formed operations is not rejected and     *)
(* ends with success.                                                       *)

IsBatch(c) ==
  /\ req[c].type \in {"batch_place", "batch_break"}
  /\ req[c].body.isArray

\* no element of the array fails the validation loop of its handler
ValidBatch(c) ==
  IF req[c].type = "batch_place"
    THEN BatchValidation(req[c].body.blocks, 1) = "ok"
    ELSE BreakValidation(req[c].body.blocks, 1) = "ok"

C12_CapOf100 ==
  \A c \in Clients :
    IsBatch(c) =>
      /\ Len(req[c].body.blocks) > 100 =>
            /\ req[c].pc = "done" /\ req[c].status = 400
            /\ ResponseFields(req[c]) = {"error"}
            /\ db = <<>>
      /\ (Len(req[c].body.blocks) = 100 /\ ValidBatch(c)) =>
            /\ req[c].status # 400
            /\ req[c].pc = "done" =>
                  /\ req[c].status = 200
                  /\ req[c].placed + req[c].skipped + req[c].broken > 0

\* a batch_break of 101 positions has been rejected
C12_Witness ==
  \E c \in Clients :
    /\ IsBatch(c) /\ req[c].type = "batch_break"
    /\ Len(req[c].body.blocks) = 101
    /\ req[c].pc = "done" /\ req[c].status = 400 /\ db = <<>>

\* a batch_place of exactly 100 items has ended with success
C12_Accepted ==
  \E c \in Clients :
    /\ IsBatch(c) /\ req[c].type = "batch_place"
    /\ Len(req[c].body.blocks) = 100
    /\ req[c].pc = "done" /\ req[c].status = 200

-----------------------------------------------------------------------------
(* C13: a scan that is accepted visits at most 32 positions along each      *)
(* axis, and a scan whose region spans more than 32 positions on some axis  *)
(* is rejected.                                                             *)

ScanDone(c) == req[c].pc = "done" /\ req[c].type = "scan"

C13_ScanAtMost32 ==
  \A c \in Clients :
    (ScanDone(c) /\ req[c].status = 200) =>
      /\ Cardinality(req[c].scan.xs) <= 32
      /\ Cardinality(req[c].scan.ys) <= 32
      /\ Cardinality(req[c].scan.zs) <= 32

-----------------------------------------------------------------------------
(* The coordinate conversions alone: worldToChunk and worldToLocal of       *)
(* chunk.ts called once with integer world coordinates.                     *)

MaxCoord == 17

CoordValues == (-MaxCoord)..MaxCoord

\* worldToChunk(x, y, z) and worldToLocal(x, y, z) for one position
ConvertCoords(x, y, z) ==
  /\ generated' = <<[by |-> "chunk.ts", input |-> <<x, y, z>>,
                     chunk |-> worldToChunk(x, y, z),
                     local |-> worldToLocal(x, y, z)]>>
  /\ UNCHANGED <<mode, noise, genVars>>

InitCoords ==
  /\ mode = "coords"
  /\ noise = SimplexNoise(DefaultSeed)
  /\ Fresh

\* the one call made, with any coordinates of the range
Convert ==
  /\ mode = "coords"
  /\ generated = <<>>
  /\ \E x \in CoordValues, y \in CoordValues, z \in CoordValues : ConvertCoords(x, y, z)

NextCoords == Convert

SpecCoords == InitCoords /\ [][NextCoords]_vars

-----------------------------------------------------------------------------
(* Physics in numbers: one agent among a few blocks.  A position is a whole
   number of units, PosUnit to the block; a velocity of the server is a whole
   number of units, VelUnit to the block per second, so that velocity * dt
   (dt = TICK_MS / 1000 = 1/20 s) is the same number of position units. *)

PosUnit == 20000000
VelUnit == 1000000

\* tenths of a block, in position units
Tenths(n) == n * (PosUnit \div 10)

\* thousandths of a block, in position units
Thousandths(n) == n * (PosUnit \div 1000)

\* GRAVITY * dt = 9.8 / 20; TERMINAL_VELOCITY; JUMP_VELOCITY;
\* WALK_SPEED * (TICK_MS / 1000) = 4.3 / 20, in velocity units
GravityStep == (98 * VelUnit) \div 200
TerminalVelocity == 50 * VelUnit
JumpVelocity == 8 * VelUnit
WalkStep == (43 * VelUnit) \div 200

\* the blocks of a scene: which voxels hold a solid block
\*   platform: one layer of blocks at y = 64, its surface at y = 65
\*   wall:     the platform, and blocks at x = 1 for y = 65 and 66
\*   ceiling:  the platform, and a layer at y = 66
\*   ledge:    the layer at y = 64, only where x >= 1 or z >= 1
Scenes == {"platform", "wall", "ceiling", "ledge"}

SceneSolid(scene, bx, by, bz) ==
  IF scene = "platform" THEN by = 64
  ELSE IF scene = "wall" THEN by = 64 \/ (bx = 1 /\ by \in {65, 66})
  ELSE IF scene = "ceiling" THEN by = 64 \/ by = 66
  ELSE by = 64 /\ (bx >= 1 \/ bz >= 1)

\* floating point: a sum that is a whole number of blocks in exact
\* arithmetic may be stored just below it
Roundings == {"nearest", "below"}

\* Math.floor of a coordinate.  sure: the coordinate is stored exactly (it
\* was given, not computed)
Floor(c, sure, r) ==
  IF c % PosUnit = 0 /\ ~sure /\ r = "below"
    THEN (c \div PosUnit) - 1
    ELSE c \div PosUnit

\* World.isSolid(x, y, z): the block at the floor of each coordinate is solid
isSolid(scene, p, sure, r) ==
  SceneSolid(scene, Floor(p[1], sure[1], r), Floor(p[2], sure[2], r),
             Floor(p[3], sure[3], r))

\* isOnGround that tests the block the feet are in
isOnGround_AtFeet(b, r) == isSolid(b.scene, b.pos, b.sure, r)

\* isOnGround(agent): isSolid(x, y - 0.1, z); y - 0.1 is computed
isOnGround(b, r) ==
  isSolid(b.scene, <<b.pos[1], b.pos[2] - Tenths(1), b.pos[3]>>,
          <<b.sure[1], FALSE, b.sure[3]>>, r)

\* velocity * 0.8
Friction(v) == (v * 4) \div 5

\* the model follows a velocity while 0.8 times it is a whole number of units
Exact(b) == (b.vel[1] * 4) % 5 = 0 /\ (b.vel[3] * 4) % 5 = 0

\* update(): "Apply gravity"
ApplyGravity(b, r) ==
  IF isOnGround(b, r) THEN b.vel[2]
  ELSE MathMax(b.vel[2] - GravityStep, -TerminalVelocity)

\* collision detection that tests every axis from the position before the
\* tick
Collide_FromStart(b, r) ==
  LET vy == ApplyGravity(b, r)
      newX == b.pos[1] + b.vel[1]
      newY == b.pos[2] + vy
      newZ == b.pos[3] + b.vel[3]
      sx == b.vel[1] = 0 /\ b.sure[1]
      sy == vy = 0 /\ b.sure[2]
      sz == b.vel[3] = 0 /\ b.sure[3]
      okX == ~isSolid(b.scene, <<newX, b.pos[2], b.pos[3]>>,
                      <<sx, b.sure[2], b.sure[3]>>, r)
      okY == ~isSolid(b.scene, <<b.pos[1], newY, b.pos[3]>>,
                      <<b.sure[1], sy, b.sure[3]>>, r)
      okZ == ~isSolid(b.scene, <<b.pos[1], b.pos[2], newZ>>,
                      <<b.sure[1], b.sure[2], sz>>, r)
  IN [hit |-> <<~okX, ~okY, ~okZ>>, new |-> <<newX, newY, newZ>>, vy |-> vy,
      pos |-> <<IF okX THEN newX ELSE b.pos[1], IF okY THEN newY ELSE b.pos[2],
                IF okZ THEN newZ ELSE b.pos[3]>>,
      sure |-> <<IF okX THEN sx ELSE b.sure[1], IF okY THEN sy ELSE b.sure[2],
                 IF okZ THEN sz ELSE b.sure[3]>>]

\* update(): "Simple collision detection", the axes in the order the code
\* takes them.  hit[i]: the candidate position of axis i is solid
Collide(b, r) ==
  LET vy == ApplyGravity(b, r)
      newX == b.pos[1] + b.vel[1]
      newY == b.pos[2] + vy
      newZ == b.pos[3] + b.vel[3]
      sx == b.vel[1] = 0 /\ b.sure[1]
      sy == vy = 0 /\ b.sure[2]
      sz == b.vel[3] = 0 /\ b.sure[3]
      okX == ~isSolid(b.scene, <<newX, b.pos[2], b.pos[3]>>,
                      <<sx, b.sure[2], b.sure[3]>>, r)
      x1 == IF okX THEN newX ELSE b.pos[1]
      sx1 == IF okX THEN sx ELSE b.sure[1]
      okY == ~isSolid(b.scene, <<x1, newY, b.pos[3]>>, <<sx1, sy, b.sure[3]>>, r)
      y1 == IF okY THEN newY ELSE b.pos[2]
      sy1 == IF okY THEN sy ELSE b.sure[2]
      okZ == ~isSolid(b.scene, <<x1, y1, newZ>>, <<sx1, sy1, sz>>, r)
      z1 == IF okZ THEN newZ ELSE b.pos[3]
      sz1 == IF okZ THEN sz ELSE b.sure[3]
  IN [hit |-> <<~okX, ~okY, ~okZ>>, new |-> <<newX, newY, newZ>>, vy |-> vy,
      pos |-> <<x1, y1, z1>>, sure |-> <<sx1, sy1, sz1>>]

\* update(): the body of the loop for one agent
update(b, r) ==
  LET c == Collide(b, r)
      vy1 == IF c.hit[2] /\ c.vy < 0 THEN 0 ELSE c.vy
  IN [b EXCEPT !.pos = c.pos,
               !.vel = <<Friction(b.vel[1]), vy1, Friction(b.vel[3])>>,
               !.sure = c.sure,
               !.ticks = @ + 1,
               !.last = "update"]

\* the action messages of an agent: move with a direction of -1, 0 or 1 on
\* each axis, jump, look and chat
MoveDirections == {<<1, 0>>, <<-1, 0>>, <<0, 1>>, <<0, 0>>}
AgentActions ==
  {[type |-> "move", direction |-> d] : d \in MoveDirections}
    \cup {[type |-> t, direction |-> <<0, 0>>] : t \in {"jump", "look", "chat"}}

\* handleAction(agent, action): what it does to the agent's numbers
handleAction_body(b, action, r) ==
  IF action.type = "move"
    THEN [b EXCEPT !.vel = <<action.direction[1] * WalkStep, b.vel[2],
                             action.direction[2] * WalkStep>>,
                   !.acts = @ + 1, !.last = action.type]
  ELSE IF action.type = "jump" /\ isOnGround(b, r)
    THEN [b EXCEPT !.vel = <<b.vel[1], JumpVelocity, b.vel[3]>>,
                   !.acts = @ + 1, !.last = action.type]
  ELSE [b EXCEPT !.acts = @ + 1, !.last = action.type]

\* an agent of the server: where it is, at rest
ServerBody(scene, x, y, z) ==
  [impl |-> "server", scene |-> scene, pos |-> <<x, y, z>>, vel |-> <<0, 0, 0>>,
   sure |-> <<TRUE, TRUE, TRUE>>, last |-> "none", onGround |-> FALSE,
   start |-> <<x, y, z>>, ticks |-> 0, acts |-> 0]

\* the agents the server is followed with: on the platform at (0, 65, 0)
\* and above it at (0, 65.3, 0); beside the wall at (0.995, 65, 0); on the
\* platform under the ceiling at (0, 65, 0); by the ledge at (0.9, 65, 0),
\* its centre over no block
ServerStarts ==
  {ServerBody("platform", 0, 65 * PosUnit, 0),
   ServerBody("platform", 0, Tenths(653), 0),
   ServerBody("wall", Thousandths(995), 65 * PosUnit, 0),
   ServerBody("ceiling", 0, 65 * PosUnit, 0),
   ServerBody("ledge", Tenths(9), 65 * PosUnit, 0)}

\* the agents that fall onto the platform: from (0, 70, 0), from (0, 66, 0)
\* and from (0.5, 75, 0.5)
FallStarts ==
  {ServerBody("platform", 0, 70 * PosUnit, 0),
   ServerBody("platform", 0, 66 * PosUnit, 0),
   ServerBody("platform", PosUnit \div 2, 75 * PosUnit, PosUnit \div 2)}

\* the most action messages and ticks an agent is followed for
MaxActions == 2
MaxPhysTicks == 6
MaxFallTicks == 40

\* an action message of the agent is handled
PhysAction(action) ==
  /\ phys.impl = "server"
  /\ phys.acts < MaxActions
  /\ \E r \in Roundings : phys' = handleAction_body(phys, action, r)
  /\ UNCHANGED <<mode, noise, generated, sim, discVars, contVars>>

\* a tick: update() moves the agent
PhysUpdate(limit) ==
  /\ phys.impl = "server"
  /\ phys.ticks < limit
  /\ Exact(phys)
  /\ \E r \in Roundings : phys' = update(phys, r)
  /\ UNCHANGED <<mode, noise, generated, sim, discVars, contVars>>

InitPhysicsOf(starts) ==
  /\ mode = "continuous"
  /\ noise = SimplexNoise(DefaultSeed)
  /\ db = <<>>
  /\ req = [c \in Clients |-> IdleReq]
  /\ disk = <<>>
  /\ chunks = loadWorld(disk)
  /\ modifiedChunks = {}
  /\ last = NoOp
  /\ steps = 0
  /\ flush = Started
  /\ generated = <<>>
  /\ sim = Booted
  /\ phys \in starts

InitPhysics == InitPhysicsOf(ServerStarts)

NextPhysics ==
  \/ \E action \in AgentActions : PhysAction(action)
  \/ PhysUpdate(MaxPhysTicks)

SpecPhysics == InitPhysics /\ [][NextPhysics]_vars

\* the same agents, and one at the edge of the ledge at (0.995, 65, 0): the
\* block beside it at x = 1 is one step away, and there is none under it
EdgeStarts ==
  ServerStarts \cup {ServerBody("ledge", Thousandths(995), 65 * PosUnit, 0)}

SpecEdge == InitPhysicsOf(EdgeStarts) /\ [][NextPhysics]_vars

-----------------------------------------------------------------------------
(* Physics in numbers: the player of the viewer (client-side prediction).
   Its velocity is in blocks per frame, a whole number of position units. *)

\* PLAYER_WIDTH / 2 = 0.3 and PLAYER_HEIGHT = 1.8
HalfWidth == Tenths(3)
PlayerHeight == Tenths(18)

\* GRAVITY = -0.02, JUMP_FORCE = 0.3 and MOVE_SPEED = 0.15 per frame
ClientGravity == Thousandths(20)
JumpForce == Thousandths(300)
MoveSpeed == Thousandths(150)

\* the points checkCollision tests around (x, y, z): the corners of the
\* box, and the midpoints of its lower and upper edges; each with whether
\* its coordinates are stored exactly
CollisionPoints(p, sure) ==
  LET xs == {<<p[1] - HalfWidth, FALSE>>, <<p[1] + HalfWidth, FALSE>>}
      ys == {<<p[2], sure[2]>>, <<p[2] + PlayerHeight, FALSE>>}
      zs == {<<p[3] - HalfWidth, FALSE>>, <<p[3] + HalfWidth, FALSE>>}
      cx == <<p[1], sure[1]>>
      cz == <<p[3], sure[3]>>
  IN {<<x, y, z>> : x \in xs, y \in ys, z \in zs}
       \cup {<<cx, y, z>> : y \in ys, z \in zs}
       \cup {<<x, y, cz>> : x \in xs, y \in ys}

\* isBlockSolid(getBlockAtWorld(px, py, pz)) for one of the points
PointSolid(scene, q, r) ==
  isSolid(scene, <<q[1][1], q[2][1], q[3][1]>>, <<q[1][2], q[2][2], q[3][2]>>, r)

\* checkCollision(x, y, z)
checkCollision(scene, p, sure, r) ==
  \E q \in CollisionPoints(p, sure) : PointSolid(scene, q, r)

\* the points checkGrounded tests: 0.01 below the feet, at the centre and
\* under the four corners of the box
GroundPoints(p, sure) ==
  LET xs == {<<p[1] - HalfWidth, FALSE>>, <<p[1] + HalfWidth, FALSE>>}
      zs == {<<p[3] - HalfWidth, FALSE>>, <<p[3] + HalfWidth, FALSE>>}
      groundY == <<p[2] - Thousandths(10), FALSE>>
  IN {<<<<p[1], sure[1]>>, groundY, <<p[3], sure[3]>>>>}
       \cup {<<x, groundY, z>> : x \in xs, z \in zs}

\* checkGrounded(x, y, z)
checkGrounded(scene, p, sure, r) ==
  \E q \in GroundPoints(p, sure) : PointSolid(scene, q, r)

\* the keys held during a frame, the camera looking along yaw = 0
Keys == {"none", "KeyD", "KeyS", "Space"}

\* processInput(): the velocity after input, jump, gravity and friction
ClientVelocity(b, key) ==
  LET moveX == IF key = "KeyD" THEN 1 ELSE 0
      moveZ == IF key = "KeyS" THEN 1 ELSE 0
      jumps == key = "Space" /\ b.onGround
  IN <<Friction(b.vel[1] + moveX * MoveSpeed),
       (IF jumps THEN JumpForce ELSE b.vel[2]) - ClientGravity,
       Friction(b.vel[3] + moveZ * MoveSpeed)>>

\* processInput(): one frame of the player
processInput(b, key, r) ==
  LET vx == ClientVelocity(b, key)[1]
      vy == ClientVelocity(b, key)[2]
      vz == ClientVelocity(b, key)[3]
      newX == b.pos[1] + vx
      newY == b.pos[2] + vy
      newZ == b.pos[3] + vz
      sx == vx = 0 /\ b.sure[1]
      sy == vy = 0 /\ b.sure[2]
      sz == vz = 0 /\ b.sure[3]
      okX == ~checkCollision(b.scene, <<newX, b.pos[2], b.pos[3]>>,
                             <<sx, b.sure[2], b.sure[3]>>, r)
      x1 == IF okX THEN newX ELSE b.pos[1]
      sx1 == IF okX THEN sx ELSE b.sure[1]
      okZ == ~checkCollision(b.scene, <<x1, b.pos[2], newZ>>,
                             <<sx1, b.sure[2], sz>>, r)
      z1 == IF okZ THEN newZ ELSE b.pos[3]
      sz1 == IF okZ THEN sz ELSE b.sure[3]
      okY == ~checkCollision(b.scene, <<x1, newY, z1>>, <<sx1, sy, sz1>>, r)
      y1 == IF okY THEN newY
            ELSE IF vy < 0
              THEN Floor(b.pos[2], b.sure[2], r) * PosUnit + Thousandths(1)
              ELSE b.pos[2]
      sy1 == IF okY THEN sy ELSE IF vy < 0 THEN FALSE ELSE b.sure[2]
      fell == y1 < -64 * PosUnit
  IN [b EXCEPT !.pos = <<x1, IF fell THEN 65 * PosUnit ELSE y1, z1>>,
               !.vel = <<IF okX THEN vx ELSE 0,
                         IF okY /\ ~fell THEN vy ELSE 0,
                         IF okZ THEN vz ELSE 0>>,
               !.sure = <<sx1, sy1 \/ fell, sz1>>,
               !.onGround = checkGrounded(b.scene, <<x1, y1, z1>>,
                                          <<sx1, sy1, sz1>>, r),
               !.ticks = @ + 1,
               !.last = key]

\* the player of the viewer: where it is, at rest, not yet on the ground
ClientBody(scene, x, y, z) ==
  [ServerBody(scene, x, y, z) EXCEPT !.impl = "client"]

\* the players followed: above the platform at (0, 65.25, 0); beside the
\* wall at (0.65, 65.001, 0); beside the ledge at (0, 65.005, 0.6), no
\* block under it
ClientStarts ==
  {ClientBody("platform", 0, Thousandths(65250), 0),
   ClientBody("wall", Thousandths(650), Thousandths(65001), 0),
   ClientBody("ledge", 0, Thousandths(65005), Thousandths(600))}

\* a frame of the viewer: processInput() moves the player
ClientFrame(key) ==
  /\ phys.impl = "client"
  /\ phys.ticks < MaxPhysTicks
  /\ (phys.vel[1] * 4) % 5 = 0 /\ (phys.vel[3] * 4) % 5 = 0
  /\ \E r \in Roundings : phys' = processInput(phys, key, r)
  /\ UNCHANGED <<mode, noise, generated, sim, discVars, contVars>>

InitClient == InitPhysicsOf(ClientStarts)

NextClient == \E key \in Keys : ClientFrame(key)

SpecClient == InitClient /\ [][NextClient]_vars

\* an agent that falls and is sent no action
InitFall == InitPhysicsOf(FallStarts)

\* a tick of the loop, which never stops: the ticks are counted up to
\* MaxFallTicks, enough for every fall followed to come to rest
Fall ==
  /\ phys.impl = "server"
  /\ Exact(phys)
  /\ \E r \in Roundings :
       phys' = [update(phys, r) EXCEPT !.ticks = MathMin(@, MaxFallTicks)]
  /\ UNCHANGED <<mode, noise, generated, sim, discVars, contVars>>

NextFall == Fall

SpecFall == InitFall /\ [][NextFall]_vars

\* setInterval(() => this.update(), TICK_MS): the timer fires
SpecFallFair == SpecFall /\ WF_vars(Fall)

-----------------------------------------------------------------------------
(* Continuous mode: who a connection joins as.  auth.ts keeps the verified  *)
(* agents in the database; handleAuth makes the agent of a connection from  *)
(* what authenticate(token) returns.                                        *)

Usernames == {"alice", "bob"}

\* generateToken(): 64 hexadecimal digits, a different text for each agent
SecretToken(u) == [hex64 |-> TRUE, text |-> u]

\* the tokens a client sends: the secret token of each user, 64 hexadecimal
\* digits that are no agent's token, and the name "guest"
Tokens ==
  {SecretToken(u) : u \in Usernames}
    \cup {[hex64 |-> TRUE, text |-> "0000"], [hex64 |-> FALSE, text |-> "guest"]}

\* no row
NoDbAgent == [id |-> [provider |-> "none", key |-> ""], username |-> "",
              secretToken |-> [hex64 |-> FALSE, text |-> ""], lastSeen |-> FALSE]

\* db.createAgent for a user that has no row: id = `${provider}:${socialId}`
createAgent(agents, u) ==
  agents \cup {[id |-> [provider |-> "twitter", key |-> u], username |-> u,
                secretToken |-> SecretToken(u), lastSeen |-> FALSE]}

\* db.findAgentByToken(token): the row with this secret token, or null
findAgentByToken(agents, token) ==
  IF \E a \in agents : a.secretToken = token
    THEN CHOOSE a \in agents : a.secretToken = token
    ELSE NoDbAgent

\* db.updateLastSeen(id)
updateLastSeen(agents, id) ==
  {IF a.id = id THEN [a EXCEPT !.lastSeen = TRUE] ELSE a : a \in agents}

\* what the promise of authenticate(token) settles to: the agent of a
\* secret token, or a guest named by the token
authenticate(agents, token) ==
  IF token.hex64 /\ findAgentByToken(agents, token) # NoDbAgent
    THEN [verified |-> TRUE, agent |-> findAgentByToken(agents, token),
          guestName |-> "undefined"]
    ELSE [verified |-> FALSE, agent |-> NoDbAgent, guestName |-> token.text]

\* the value of an await
Awaited(v) == [promise |-> FALSE, value |-> v]

\* the value of an async function at the call: a promise, an object that
\* has none of the fields of the value it settles to
Promise(v) == [promise |-> TRUE, value |-> v]

\* authResult.verified as a condition, and authResult.guestName
Verified(authResult) == ~authResult.promise /\ authResult.value.verified
GuestName(authResult) ==
  IF authResult.promise THEN "undefined" ELSE authResult.value.guestName

\* handleAuth: the id, name and moltbookId of the agent it makes.  n: the
\* uuid of a guest
handleAuth_agent(agents, token, n) ==
  LET authResult == Promise(authenticate(agents, token))
  IN IF Verified(authResult)
       THEN [id |-> authResult.value.agent.id,
             name |-> authResult.value.agent.username,
             moltbookId |-> authResult.value.agent.id.key]
       ELSE [id |-> [provider |-> "guest", key |-> ToString(n)],
             name |-> GuestName(authResult),
             moltbookId |-> "undefined"]

\* a connection without agent.  held: the row that held the token of the
\* auth message when it was handled
NoJoin == [joined |-> FALSE, id |-> [provider |-> "none", key |-> ""], name |-> "",
           moltbookId |-> "undefined", held |-> NoDbAgent, auths |-> 0]

\* the server started, no agent verified, no connection authenticated;
\* lookups: the tokens of the promises that have not settled
AuthBooted ==
  [agents |-> {}, clients |-> [c \in Clients |-> NoJoin], uuids |-> 0, lookups |-> {}]

\* verifyPost of user u succeeds: the agent is created
VerifyPost(u) ==
  /\ \A a \in sim.agents : a.username # u
  /\ sim' = [sim EXCEPT !.agents = createAgent(@, u)]
  /\ UNCHANGED <<mode, noise, generated, phys, discVars, contVars>>

\* the message {"type":"auth","token":token} of connection c: handleAuth
AuthMessage(c, token) ==
  /\ sim.clients[c].auths < MaxAuths
  /\ LET agent == handleAuth_agent(sim.agents, token, sim.uuids + 1)
     IN sim' = [sim EXCEPT
          !.clients[c] = [joined |-> TRUE, id |-> agent.id, name |-> agent.name,
                          moltbookId |-> agent.moltbookId,
                          held |-> IF token.hex64
                                     THEN findAgentByToken(sim.agents, token)
                                     ELSE NoDbAgent,
                          auths |-> @.auths + 1],
          !.uuids = IF agent.id.provider = "guest" THEN @ + 1 ELSE @,
          !.lookups = IF token.hex64 THEN @ \cup {token} ELSE @]
  /\ UNCHANGED <<mode, noise, generated, phys, discVars, contVars>>

\* the promise of authenticate(token) goes on: authenticateWithToken finds
\* the agent and updates its last seen time
TokenLookup(token) ==
  /\ token \in sim.lookups
  /\ sim' = [sim EXCEPT
       !.agents = IF findAgentByToken(@, token) # NoDbAgent
                    THEN updateLastSeen(@, findAgentByToken(@, token).id)
                    ELSE @,
       !.lookups = @ \ {token}]
  /\ UNCHANGED <<mode, noise, generated, phys, discVars, contVars>>

InitAuth ==
  /\ mode = "continuous"
  /\ noise = SimplexNoise(DefaultSeed)
  /\ db = <<>>
  /\ req = [c \in Clients |-> IdleReq]
  /\ disk = <<>>
  /\ chunks = loadWorld(disk)
  /\ modifiedChunks = {}
  /\ last = NoOp
  /\ steps = 0
  /\ flush = Started
  /\ generated = <<>>
  /\ sim = AuthBooted
  /\ phys = NoBodyYet

NextAuth ==
  \/ \E u \in Usernames : VerifyPost(u)
  \/ \E c \in Clients, token \in Tokens : AuthMessage(c, token)
  \/ \E token \in Tokens : TokenLookup(token)

SpecAuth == InitAuth /\ [][NextAuth]_vars

-----------------------------------------------------------------------------
(* convex/agents.ts: the agents table and the pending signups.  A name is a *)
(* sequence of characters.                                                  *)

\* String.toLowerCase() on the characters of the names below
LowerChar(ch) == IF ch = "A" THEN "a" ELSE IF ch = "B" THEN "b" ELSE ch

RECURSIVE toLowerCase(_)
toLowerCase(s) ==
  IF s = <<>> THEN <<>> ELSE <<LowerChar(Head(s))>> \o toLowerCase(Tail(s))

\* name.replace(/[^a-zA-Z0-9_-]/g, ''): of the characters below, "!" and
\* " " are removed.  No name below has more than 32 characters
Kept(ch) == ch \notin {"!", " "}
Sanitized(s) == SelectSeq(s, Kept)

\* the names the mutations are called with
Names == {<<"a", "l">>, <<"A", "l">>, <<"b", "!", "o">>, <<"b">>}

SocialIds == {"s1", "s2"}

\* the most rows of agents and of pendingSignups that are made
MaxAgents == 3
MaxSignups == 2

\* the agents of the index by_username with this username: q.eq compares
\* the stored text
ByUsername(agents, username) == {a \in agents : a.username = username}

\* the lookup of a username that lowers the stored username as well
Taken_IgnoringCase(agents, username) ==
  \E a \in agents : toLowerCase(a.username) = toLowerCase(username)

\* "Check username not taken": a row whose username is the lowered name
Taken(agents, username) == ByUsername(agents, toLowerCase(username)) # {}

\* an empty deployment; ids: the number of documents inserted
NoAgents == [agents |-> {}, pendingSignups |-> {}, ids |-> 0, last |-> "none"]

\* registerDirect({name}); a throw leaves the tables as they are
registerDirect(s, name) ==
  LET username == Sanitized(name)
  IN IF Len(username) < 2 \/ Taken(s.agents, username)
       THEN [s EXCEPT !.last = "throws"]
       ELSE [s EXCEPT !.agents = @ \cup {[id |-> s.ids + 1, username |-> username,
                                          provider |-> "direct", socialId |-> ""]},
                      !.ids = @ + 1,
                      !.last = "registerDirect"]

\* startSignup({username})
startSignup(s, username) ==
  IF Taken(s.agents, username)
    THEN [s EXCEPT !.last = "throws"]
    ELSE [s EXCEPT !.pendingSignups = @ \cup {[id |-> s.ids + 1, username |-> username]},
                   !.ids = @ + 1,
                   !.last = "startSignup"]

\* verifyAndCreate({signupId, provider: "twitter", socialId}); expired:
\* Date.now() > pending.expiresAt
verifyAndCreate(s, signupId, socialId, expired) ==
  IF \A p \in s.pendingSignups : p.id # signupId
    THEN [s EXCEPT !.last = "throws"]
  ELSE LET pending == CHOOSE p \in s.pendingSignups : p.id = signupId
       IN IF expired
            THEN [s EXCEPT !.pendingSignups = @ \ {pending}, !.last = "throws"]
          ELSE IF \E a \in s.agents : a.provider = "twitter" /\ a.socialId = socialId
            THEN [s EXCEPT !.last = "throws"]
          ELSE [s EXCEPT !.agents = @ \cup {[id |-> s.ids + 1,
                                             username |-> pending.username,
                                             provider |-> "twitter",
                                             socialId |-> socialId]},
                         !.ids = @ + 1,
                         !.pendingSignups = @ \ {pending},
                         !.last = "verifyAndCreate"]

RegisterDirect(name) ==
  /\ Cardinality(sim.agents) < MaxAgents
  /\ sim' = registerDirect(sim, name)
  /\ UNCHANGED <<mode, noise, generated, phys, discVars, contVars>>

StartSignup(username) ==
  /\ sim.ids < MaxAgents + MaxSignups
  /\ Cardinality(sim.pendingSignups) < MaxSignups
  /\ sim' = startSignup(sim, username)
  /\ UNCHANGED <<mode, noise, generated, phys, discVars, contVars>>

VerifyAndCreate(signupId, socialId, expired) ==
  /\ Cardinality(sim.agents) < MaxAgents
  /\ sim' = verifyAndCreate(sim, signupId, socialId, expired)
  /\ UNCHANGED <<mode, noise, generated, phys, discVars, contVars>>

InitSignup ==
  /\ mode = "discrete"
  /\ noise = SimplexNoise(DefaultSeed)
  /\ db = <<>>
  /\ req = [c \in Clients |-> IdleReq]
  /\ disk = <<>>
  /\ chunks = loadWorld(disk)
  /\ modifiedChunks = {}
  /\ last = NoOp
  /\ steps = 0
  /\ flush = Started
  /\ generated = <<>>
  /\ sim = NoAgents
  /\ phys = NoBodyYet

NextSignup ==
  \/ \E name \in Names : RegisterDirect(name)
  \/ \E username \in Names : StartSignup(username)
  \/ \E signupId \in 1..(MaxAgents + MaxSignups), socialId \in SocialIds,
          expired \in BOOLEAN :
       VerifyAndCreate(signupId, socialId, expired)

SpecSignup == InitSignup /\ [][NextSignup]_vars

-----------------------------------------------------------------------------
(* Proposals and votes: the mutations of the proposals table, each one a    *)
(* transaction, and GameServer.vote on the server's own map of proposals.   *)

MaxProposals == 1
AgentIds == {"a1", "a2"}
VoteKinds == {"for", "against"}

\* the table empty; server: this.proposals of the GameServer, which nothing
\* adds a proposal to
NoProposals == [proposals |-> <<>>, server |-> <<>>, last |-> "none"]

\* create: a proposal in voting, without votes; ended: Date.now() is past
\* votingEndsAt
create(table) ==
  Append(table, [status |-> "voting", votesFor |-> <<>>, votesAgainst |-> <<>>,
                 ended |-> FALSE])

\* array.includes(agentId)
Includes(list, agentId) == \E i \in 1..Len(list) : list[i] = agentId

\* array.filter((id) => id !== agentId)
Without(list, agentId) == SelectSeq(list, LAMBDA id : id # agentId)

\* proposalId names a document
Found(table, proposalId) == proposalId \in DOMAIN table

\* vote that does not look for an earlier vote of the agent
vote_NoCheck(table, proposalId, agentId, kind) ==
  IF ~Found(table, proposalId) \/ table[proposalId].status # "voting"
       \/ table[proposalId].ended
    THEN table
  ELSE IF kind = "for"
    THEN [table EXCEPT ![proposalId].votesFor = Append(@, agentId)]
  ELSE [table EXCEPT ![proposalId].votesAgainst = Append(@, agentId)]

\* vote({proposalId, agentId, vote}); a throw leaves the table as it is
vote(table, proposalId, agentId, kind) ==
  IF ~Found(table, proposalId) \/ table[proposalId].status # "voting"
       \/ table[proposalId].ended
       \/ Includes(table[proposalId].votesFor, agentId)
       \/ Includes(table[proposalId].votesAgainst, agentId)
    THEN table
  ELSE IF kind = "for"
    THEN [table EXCEPT ![proposalId].votesFor = Append(@, agentId)]
  ELSE [table EXCEPT ![proposalId].votesAgainst = Append(@, agentId)]

\* closeVoting that does not look at the status
closeVoting_NoCheck(table, proposalId) ==
  IF ~Found(table, proposalId) THEN table
  ELSE LET forCount == Len(table[proposalId].votesFor)
           againstCount == Len(table[proposalId].votesAgainst)
           approved == forCount + againstCount > 0 /\ forCount > againstCount
       IN [table EXCEPT ![proposalId].status =
                          IF approved THEN "approved" ELSE "rejected"]

\* closeVoting({proposalId}): a simple majority of at least one vote
closeVoting(table, proposalId) ==
  IF ~Found(table, proposalId) \/ table[proposalId].status # "voting"
    THEN table
  ELSE LET forCount == Len(table[proposalId].votesFor)
           againstCount == Len(table[proposalId].votesAgainst)
           approved == forCount + againstCount > 0 /\ forCount > againstCount
       IN [table EXCEPT ![proposalId].status =
                          IF approved THEN "approved" ELSE "rejected"]

\* markMerged({proposalId})
markMerged(table, proposalId) ==
  IF ~Found(table, proposalId) \/ table[proposalId].status # "approved"
    THEN table
    ELSE [table EXCEPT ![proposalId].status = "merged"]

\* GameServer.vote(proposalId, agentId, vote): the earlier vote of the agent
\* is removed and the new one added
GameServer_vote(map, proposalId, agentId, kind) ==
  IF ~Found(map, proposalId) \/ map[proposalId].status # "voting"
    THEN map
    ELSE [map EXCEPT
           ![proposalId].votesFor =
              IF kind = "for" THEN Append(Without(@, agentId), agentId)
                              ELSE Without(@, agentId),
           ![proposalId].votesAgainst =
              IF kind = "for" THEN Without(@, agentId)
                              ELSE Append(Without(@, agentId), agentId)]

Create ==
  /\ Len(sim.proposals) < MaxProposals
  /\ sim' = [sim EXCEPT !.proposals = create(@), !.last = "create"]
  /\ UNCHANGED <<mode, noise, generated, phys, discVars, contVars>>

\* the voting period of a proposal ends
VotingEnds(proposalId) ==
  /\ Found(sim.proposals, proposalId)
  /\ ~sim.proposals[proposalId].ended
  /\ sim' = [sim EXCEPT !.proposals[proposalId].ended = TRUE, !.last = "time"]
  /\ UNCHANGED <<mode, noise, generated, phys, discVars, contVars>>

Vote(proposalId, agentId, kind) ==
  /\ sim' = [sim EXCEPT !.proposals = vote(@, proposalId, agentId, kind),
                        !.last = IF vote(sim.proposals, proposalId, agentId, kind) = sim.proposals
                                   THEN "vote throws" ELSE "vote"]
  /\ UNCHANGED <<mode, noise, generated, phys, discVars, contVars>>

CloseVoting(proposalId) ==
  /\ sim' = [sim EXCEPT !.proposals = closeVoting(@, proposalId),
                        !.last = IF closeVoting(sim.proposals, proposalId) = sim.proposals
                                   THEN "throws" ELSE "closeVoting"]
  /\ UNCHANGED <<mode, noise, generated, phys, discVars, contVars>>

MarkMerged(proposalId) ==
  /\ sim' = [sim EXCEPT !.proposals = markMerged(@, proposalId),
                        !.last = IF markMerged(sim.proposals, proposalId) = sim.proposals
                                   THEN "throws" ELSE "markMerged"]
  /\ UNCHANGED <<mode, noise, generated, phys, discVars, contVars>>

\* POST /api/proposals/:id/vote
ServerVote(proposalId, agentId, kind) ==
  /\ sim' = [sim EXCEPT !.server = GameServer_vote(@, proposalId, agentId, kind),
                        !.last = IF GameServer_vote(sim.server, proposalId, agentId, kind) = sim.server
                                   THEN "not found" ELSE "server vote"]
  /\ UNCHANGED <<mode, noise, generated, phys, discVars, contVars>>

InitProposals ==
  /\ mode = "discrete"
  /\ noise = SimplexNoise(DefaultSeed)
  /\ db = <<>>
  /\ req = [c \in Clients |-> IdleReq]
  /\ disk = <<>>
  /\ chunks = loadWorld(disk)
  /\ modifiedChunks = {}
  /\ last = NoOp
  /\ steps = 0
  /\ flush = Started
  /\ generated = <<>>
  /\ sim = NoProposals
  /\ phys = NoBodyYet

NextProposals ==
  \/ Create
  \/ \E proposalId \in 1..MaxProposals : VotingEnds(proposalId)
  \/ \E proposalId \in 1..MaxProposals, agentId \in AgentIds, kind \in VoteKinds :
       Vote(proposalId, agentId, kind)
  \/ \E proposalId \in 1..MaxProposals : CloseVoting(proposalId)
  \/ \E proposalId \in 1..MaxProposals : MarkMerged(proposalId)
  \/ \E proposalId \in 1..MaxProposals, agentId \in AgentIds, kind \in VoteKinds :
       ServerVote(proposalId, agentId, kind)

SpecProposals == InitProposals /\ [][NextProposals]_vars

-----------------------------------------------------------------------------
(* GameServer.start() and stop(): the interval timers.  setInterval returns *)
(* a new handle; the server keeps the last handle of each kind.  A timer    *)
(* that is set fires until clearInterval is called with its handle.         *)

MaxStarts == 2
MaxAutosaves == 3

\* no handle: null
NoTimer == 0

\* the server constructed: no timer set, no tick made
Constructed ==
  [timers |-> {}, handles |-> 0, tickInterval |-> NoTimer, saveInterval |-> NoTimer,
   starts |-> 0, stopped |-> FALSE, tick |-> 0, autosaves |-> 0, saved |-> 0]

\* start(): two timers are set and their handles stored
start(s) ==
  [s EXCEPT !.timers = @ \cup {[id |-> s.handles + 1, kind |-> "tick"],
                               [id |-> s.handles + 2, kind |-> "save"]},
            !.handles = @ + 2,
            !.tickInterval = s.handles + 1,
            !.saveInterval = s.handles + 2,
            !.starts = @ + 1,
            !.stopped = FALSE]

\* stop() that clears every timer the server has set
stop_ClearsAll(s) ==
  [s EXCEPT !.timers = {}, !.tickInterval = NoTimer, !.saveInterval = NoTimer,
            !.saved = @ + 1, !.stopped = TRUE]

\* stop(): the timers of the stored handles are cleared, then the final save
stop(s) ==
  [s EXCEPT !.timers = {t \in @ : t.id \notin {s.tickInterval, s.saveInterval}},
            !.tickInterval = NoTimer,
            !.saveInterval = NoTimer,
            !.saved = @ + 1,
            !.stopped = TRUE]

StartServer ==
  /\ sim.starts < MaxStarts
  /\ ~sim.stopped
  /\ sim' = start(sim)
  /\ UNCHANGED <<mode, noise, generated, phys, discVars, contVars>>

\* stop() is called once, as index.ts does on shutdown
StopServer ==
  /\ ~sim.stopped
  /\ sim' = stop(sim)
  /\ UNCHANGED <<mode, noise, generated, phys, discVars, contVars>>

\* a tick timer fires: update()
TimerTick ==
  /\ \E t \in sim.timers : t.kind = "tick"
  /\ sim.tick < MaxPhysTicks
  /\ \E r \in Roundings : phys' = update(phys, r)
  /\ sim' = [sim EXCEPT !.tick = @ + 1]
  /\ UNCHANGED <<mode, noise, generated, discVars, contVars>>

\* a save timer fires: nothing is modified, nothing is saved
TimerSave ==
  /\ \E t \in sim.timers : t.kind = "save"
  /\ sim.autosaves < MaxAutosaves
  /\ sim' = [sim EXCEPT !.autosaves = @ + 1]
  /\ UNCHANGED <<mode, noise, generated, phys, discVars, contVars>>

\* one agent in the air above the platform, the server constructed
InitTimers ==
  /\ mode = "continuous"
  /\ noise = SimplexNoise(DefaultSeed)
  /\ db = <<>>
  /\ req = [c \in Clients |-> IdleReq]
  /\ disk = <<>>
  /\ chunks = loadWorld(disk)
  /\ modifiedChunks = {}
  /\ last = NoOp
  /\ steps = 0
  /\ flush = Started
  /\ generated = <<>>
  /\ sim = Constructed
  /\ phys = ServerBody("platform", 0, 70 * PosUnit, 0)

NextTimers == StartServer \/ StopServer \/ TimerTick \/ TimerSave

SpecTimers == InitTimers /\ [][NextTimers]_vars

-----------------------------------------------------------------------------
(* World.raycast: the march along a ray.  Lengths are hundredths of a       *)
(* block; the origins have odd coordinates and the steps even ones, so no   *)
(* position of the march lies on a block boundary.                          *)

RayUnit == 100

\* the iterations of "for (let d = 0; d < maxDistance; d += step)" with
\* maxDistance = 5 and step = 0.1: fifty additions of 0.1 are below 5
RaySteps == 51

\* the blocks the ray meets: flat ground up to y = 0, a pillar at x = 3
RaySolid(bx, by, bz) == by <= 0 \/ (bx = 3 /\ by <= 2)

\* Math.floor of each coordinate
BlockOf(p) == <<p[1] \div RayUnit, p[2] \div RayUnit, p[3] \div RayUnit>>

\* isSolid(pos.x, pos.y, pos.z)
RayIsSolid(p) == RaySolid(BlockOf(p)[1], BlockOf(p)[2], BlockOf(p)[3])

\* "Determine which face was hit": x is asked first, then y, then z
FaceNormal(prevPos, blockPos) ==
  IF BlockOf(prevPos)[1] # blockPos[1]
    THEN <<IF prevPos[1] < blockPos[1] * RayUnit THEN -1 ELSE 1, 0, 0>>
  ELSE IF BlockOf(prevPos)[2] # blockPos[2]
    THEN <<0, IF prevPos[2] < blockPos[2] * RayUnit THEN -1 ELSE 1, 0>>
  ELSE IF BlockOf(prevPos)[3] # blockPos[3]
    THEN <<0, 0, IF prevPos[3] < blockPos[3] * RayUnit THEN -1 ELSE 1>>
  ELSE <<0, 0, 0>>

NoHit == [found |-> FALSE]

\* the loop of raycast from iteration n on, pos the position before it
RECURSIVE March(_, _, _)
March(pos, dir, n) ==
  IF n > RaySteps THEN NoHit
  ELSE LET next == <<pos[1] + dir[1], pos[2] + dir[2], pos[3] + dir[3]>>
       IN IF RayIsSolid(next)
            THEN [found |-> TRUE, hit |-> BlockOf(next),
                  normal |-> FaceNormal(pos, BlockOf(next))]
            ELSE March(next, dir, n + 1)

\* raycast(origin, direction): dir = direction * step, step = 0.1
raycast(origin, direction) ==
  March(origin, <<direction[1] \div 10, direction[2] \div 10, direction[3] \div 10>>, 1)

\* eyes above the ground
RayOrigins ==
  {<<x, y, z>> : x \in {55, 97, 151, 295}, y \in {105, 165}, z \in {55, 95}}

\* directions, hundredths: along the axes, and slanted in a plane
RayDirections ==
  {<<100, 0, 0>>, <<0, -100, 0>>, <<0, 0, 100>>, <<0, 100, 0>>,
   <<60, -80, 0>>, <<80, -60, 0>>, <<-60, -80, 0>>,
   <<0, -80, 60>>, <<0, -60, 80>>, <<60, 0, 80>>}

NoRay == [impl |-> "ray", cast |-> FALSE]

\* one call of raycast
Raycast(origin, direction) ==
  /\ phys = NoRay
  /\ phys' = [impl |-> "ray", cast |-> TRUE, origin |-> origin,
              direction |-> direction, result |-> raycast(origin, direction)]
  /\ UNCHANGED <<mode, noise, generated, sim, discVars, contVars>>

InitRay == InitPhysicsOf({NoRay})

NextRay == \E origin \in RayOrigins, direction \in RayDirections : Raycast(origin, direction)

SpecRay == InitRay /\ [][NextRay]_vars

-----------------------------------------------------------------------------
(* Persistence of the World: the steps that are flushes, and what they hand *)
(* to writeFileSync.                                                        *)

FlushOps == {"saveWorld", "autosave", "stop"}

\* this step is a call of saveWorld()
FlushStep == last' # last /\ last'.op \in FlushOps

\* ... that reached modifiedChunks.clear(), or found nothing to save
FlushSucceeds == FlushStep /\ last'.ret

FlushFails == FlushStep /\ ~last'.ret

\* the keys the flush of this step passed to writeFileSync
Handed == {flush'.handed[i] : i \in 1..Len(flush'.handed)}

\* the files this step created or changed
FilesWritten == {k \in DOMAIN disk' : k \notin DOMAIN disk \/ disk'[k] # disk[k]}

\* the file of chunk key holds the blocks the chunk has in memory
Persisted(key) ==
  /\ key \in DOMAIN disk /\ key \in DOMAIN chunks
  /\ disk[key].blocks = chunks[key].blocks

WindowKeys == {chunkKey(coord) : coord \in WindowCoords}

-----------------------------------------------------------------------------
(* C14: a flush hands to persistence only chunks on which a setBlockAt has  *)
(* succeeded since the last flush that succeeded; a chunk that was only     *)
(* generated, read or loaded from disk is not among them, and no file of    *)
(* such a chunk is written.                                                 *)

C14_OnlyMutatedHanded ==
  [][FlushStep => (Handed \subseteq flush.since /\ FilesWritten \subseteq flush.since)]_vars

\* a flush has handed over one chunk while another chunk, generated by a
\* read or loaded from its file, stays out
C14_Witness ==
  /\ last.op = "autosave" /\ last.ret
  /\ Len(flush.handed) = 1
  /\ \E key \in DOMAIN chunks : key # flush.handed[1] /\ ~chunks[key].dirty

-----------------------------------------------------------------------------
(* C15: a chunk mutated by setBlockAt is handed to persistence exactly once *)
(* by the next flush, and is absent from the flush after that unless it was *)
(* mutated again in between.                                                *)

OnceIn(key, handed) == Cardinality({i \in 1..Len(handed) : handed[i] = key}) = 1

\* as stated, for every flush
C15_OncePerFlush ==
  [][FlushStep =>
       /\ \A key \in flush.since : OnceIn(key, flush'.handed)
       /\ flush'.since = {} /\ modifiedChunks' = {}]_vars

\* for the flushes that succeed: every chunk mutated since the last such
\* flush is handed over exactly once, and nothing stays pending, so that the
\* following flush hands over only what is mutated after this one (C14)
C15_OncePerSuccessfulFlush ==
  [][FlushSucceeds =>
       /\ \A key \in flush.since : OnceIn(key, flush'.handed)
       /\ flush'.since = {} /\ modifiedChunks' = {}]_vars

\* a flush has succeeded, with two chunks handed over
C15_Witness ==
  /\ last.op \in FlushOps /\ last.ret
  /\ Len(flush.handed) = 2 /\ flush.handed[1] # flush.handed[2]
  /\ modifiedChunks = {}

-----------------------------------------------------------------------------
(* C16: when a flush fails part-way, every chunk that was pending stays     *)
(* pending and no block in memory changes; the next flush that succeeds     *)
(* writes every pending chunk, those the failed flush had written included. *)

-----------------------------------------------------------------------------
(* C17: while the auto-save timer runs, or when the server is stopped       *)
(* through stop(), a chunk that has been mutated is eventually written: its *)
(* file holds its blocks and it is no longer pending.  A final save that    *)
(* fails is the one case excused: no flush follows it.                      *)

FinalSaveFailed == ~flush.running /\ ~flush.ok

C17_EventuallyWritten ==
  \A key \in WindowKeys :
    (key \in modifiedChunks) ~>
      ((key \notin modifiedChunks /\ Persisted(key)) \/ FinalSaveFailed)

\* the timer has written every chunk it was handed
C17_Witness ==
  /\ last.op = "autosave" /\ last.ret /\ flush.running
  /\ flush.handed # <<>>
  /\ \A i \in 1..Len(flush.handed) : Persisted(flush.handed[i])

-----------------------------------------------------------------------------
(* C18: for every integer world coordinate, negative ones included,         *)
(* worldToChunk and worldToLocal return a chunk coordinate c and a local    *)
(* offset l with 0 <= l < 16 and c * 16 + l equal to the coordinate, on     *)
(* each axis.                                                               *)

Recomposes(c, l, v) == 0 <= l /\ l < 16 /\ c * 16 + l = v

C18_ChunkLocalRoundTrip ==
  \A i \in 1..Len(generated) :
    LET g == generated[i]
    IN /\ Recomposes(g.chunk.cx, g.local.x, g.input[1])
       /\ Recomposes(g.chunk.cy, g.local.y, g.input[2])
       /\ Recomposes(g.chunk.cz, g.local.z, g.input[3])

\* (-1, 5, -17) lies in chunk (-1, 0, -2) at local offset (15, 5, 15)
C18_Witness ==
  /\ generated # <<>>
  /\ generated[1].input = <<-1, 5, -17>>
  /\ generated[1].chunk = [cx |-> -1, cy |-> 0, cz |-> -2]
  /\ generated[1].local = [x |-> 15, y |-> 5, z |-> 15]

-----------------------------------------------------------------------------
(* C21: the agents simulated are those of the live connections *)

\* the ids of the agents attached to connected, authenticated clients
Attached == {<<c, sim.agents[c].id>> : c \in {d \in Clients : sim.agents[d].joined}}

\* C21: at all times the set of agents simulated and broadcast by the game
\* server (this.agents) equals the set of agents attached to currently
\* connected, authenticated clients, also when a client authenticates more
\* than once on the same connection
C21_AgentsAreAttached == sim.map = Attached

-----------------------------------------------------------------------------
(* C22..C28: the physics of one agent *)

\* this step is a tick
Ticks == phys'.ticks = phys.ticks + 1

\* this step handles an action message
Acts == phys'.acts = phys.acts + 1

\* C22: only the tick step (update) writes an agent's position or velocity:
\* a step that handles an action message (move, jump, look, chat) leaves
\* both as they were
C22_OnlyTickWritesMotion ==
  [][Acts => (phys'.pos = phys.pos /\ phys'.vel = phys.vel)]_vars

\* C23: in every physics step, for each axis (x, y, z) whose candidate
\* position collides, the agent's position on that axis is left unchanged
\* and its velocity component on that axis is zero at the end of the step
C23_CollidingAxisStops ==
  [][Ticks =>
      \A r \in Roundings :
        phys' = update(phys, r) =>
          \A i \in 1..3 :
            Collide(phys, r).hit[i]
              => (phys'.pos[i] = phys.pos[i] /\ phys'.vel[i] = 0)]_vars

\* C24: when an agent's downward vertical move collides during a physics
\* step, its y position after the step lies exactly on the block boundary,
\* the top face of the block the candidate position is in
C24_SnapsToBoundary ==
  [][Ticks =>
      \A r \in Roundings :
        (phys' = update(phys, r) /\ Collide(phys, r).hit[2]
           /\ Collide(phys, r).vy < 0)
          => phys'.pos[2] = (Floor(Collide(phys, r).new[2], FALSE, r) + 1) * PosUnit]_vars

\* the agent released at (0, 70, 0) above the platform whose top is y = 65
FromSeventy == phys.scene = "platform" /\ phys.start = <<0, 70 * PosUnit, 0>>

\* C25: an agent that starts at (0, 70, 0) with zero horizontal velocity
\* above a platform whose surface is y = 65 never has y below 65, is
\* eventually grounded, and comes to rest at y = 65 exactly
C25_FallsOntoPlatform ==
  /\ [](FromSeventy => phys.pos[2] >= 65 * PosUnit)
  /\ <>[](FromSeventy =>
            /\ \A r \in Roundings : isOnGround(phys, r)
            /\ phys.pos[2] = 65 * PosUnit)

\* the agent is at rest with its feet on the top face of a solid block
Standing ==
  /\ phys.vel = <<0, 0, 0>>
  /\ phys.pos[2] % PosUnit = 0
  /\ phys.sure = <<TRUE, TRUE, TRUE>>
  /\ SceneSolid(phys.scene, phys.pos[1] \div PosUnit, (phys.pos[2] \div PosUnit) - 1,
                phys.pos[3] \div PosUnit)

\* C26: an agent at rest (zero velocity) standing on a single-layer solid
\* platform is grounded, and after one tick it still has zero vertical
\* velocity and an unchanged y position
C26_RestsOnPlatform ==
  [][Standing =>
      /\ \A r \in Roundings : isOnGround(phys, r)
      /\ Ticks => (phys'.vel[2] = 0 /\ phys'.pos[2] = phys.pos[2])]_vars

\* a tick has moved an agent that stood on the platform at (0, 65, 0), and
\* it stands there still
C26_Witness ==
  /\ Standing
  /\ phys.scene = "platform"
  /\ phys.ticks >= 1
  /\ phys.acts = 0
  /\ phys.pos = <<0, 65 * PosUnit, 0>>

\* where a frame of the viewer leaves the player when the axes are taken in
\* the order x, y, z, each candidate tested against the axes already moved
InOrderXYZ(b, key, r) ==
  LET v == ClientVelocity(b, key)
      new == <<b.pos[1] + v[1], b.pos[2] + v[2], b.pos[3] + v[3]>>
      s == <<v[1] = 0 /\ b.sure[1], v[2] = 0 /\ b.sure[2], v[3] = 0 /\ b.sure[3]>>
      okX == ~checkCollision(b.scene, <<new[1], b.pos[2], b.pos[3]>>,
                             <<s[1], b.sure[2], b.sure[3]>>, r)
      x1 == IF okX THEN new[1] ELSE b.pos[1]
      sx1 == IF okX THEN s[1] ELSE b.sure[1]
      okY == ~checkCollision(b.scene, <<x1, new[2], b.pos[3]>>,
                             <<sx1, s[2], b.sure[3]>>, r)
      y1 == IF okY THEN new[2]
            ELSE IF v[2] < 0
              THEN Floor(b.pos[2], b.sure[2], r) * PosUnit + Thousandths(1)
              ELSE b.pos[2]
      sy1 == IF okY THEN s[2] ELSE IF v[2] < 0 THEN FALSE ELSE b.sure[2]
      okZ == ~checkCollision(b.scene, <<x1, y1, new[3]>>, <<sx1, sy1, s[3]>>, r)
  IN <<x1, y1, IF okZ THEN new[3] ELSE b.pos[3]>>

\* C28: each physics step resolves the axes in the order x, then y, then
\* z, testing each axis's candidate position against the already-updated
\* values of the earlier axes
C28_AxesInOrderXYZ ==
  [][(Ticks /\ phys.impl = "client") =>
      \A r \in Roundings :
        phys' = processInput(phys, phys'.last, r)
          => phys'.pos = InOrderXYZ(phys, phys'.last, r)]_vars

\* the position of the march after n steps
RayAt(n) ==
  <<phys.origin[1] + n * (phys.direction[1] \div 10),
    phys.origin[2] + n * (phys.direction[2] \div 10),
    phys.origin[3] + n * (phys.direction[3] \div 10)>>

\* the step of the march that entered the block hit
HitStep == CHOOSE n \in 1..RaySteps : RayIsSolid(RayAt(n)) /\ \A m \in 1..(n - 1) : ~RayIsSolid(RayAt(m))

\* axis i crosses a block boundary in the last step of the march
Crosses(i) == BlockOf(RayAt(HitStep - 1))[i] # BlockOf(RayAt(HitStep))[i]

\* how far into the last step axis i crosses its boundary, as a fraction
\* <<numerator, denominator>>
CrossedAt(i) ==
  LET from == RayAt(HitStep - 1)[i]
      to == RayAt(HitStep)[i]
      boundary == IF to > from THEN (to \div RayUnit) * RayUnit
                              ELSE (from \div RayUnit) * RayUnit
  IN <<Abs(boundary - from), Abs(to - from)>>

\* the axes whose boundary the ray crossed last before the block hit
CrossedLast ==
  {i \in 1..3 :
     /\ Crosses(i)
     /\ \A j \in 1..3 :
          Crosses(j) => CrossedAt(i)[1] * CrossedAt(j)[2] >= CrossedAt(j)[1] * CrossedAt(i)[2]}

\* C29: whenever raycast reports a hit, the face normal returned has
\* exactly one non-zero component, of magnitude 1, and it lies on the axis
\* whose voxel boundary the ray crossed last before entering the hit voxel
C29_NormalOfLastCrossing ==
  (phys.impl = "ray" /\ phys.cast /\ phys.result.found) =>
    \E i \in 1..3 :
      /\ phys.result.normal[i] \in {-1, 1}
      /\ \A j \in (1..3) \ {i} : phys.result.normal[j] = 0
      /\ i \in CrossedLast

\* the chunk generated last
Made == generated[Len(generated)]

\* every block of the bottom layer of the chunk generated last is bedrock
FloorIsBedrock == \A i \in FloorIdx : Made.blocks[i] = BEDROCK

\* C30: generating chunk (0,4,0) with seed 42 yields the bedrock id at
\* local (x, 0, z) for every x and z in 0..15
C30_BedrockUnderChunk4 ==
  (generated # <<>> /\ noise.seed = 42 /\ Made.coord = [cx |-> 0, cy |-> 4, cz |-> 0])
    => FloorIsBedrock

\* C30 amended: generating chunk (0,0,0) with seed 42 yields the bedrock id
\* at local (x, 0, z) for every x and z in 0..15
C30_BedrockUnderChunk0 ==
  (generated # <<>> /\ noise.seed = 42 /\ Made.coord = [cx |-> 0, cy |-> 0, cz |-> 0])
    => FloorIsBedrock

\* chunk (0,0,0) has been generated by generateChunk and then by the
\* TerrainGenerator
C30_Witness ==
  /\ Len(generated) = 2
  /\ noise.seed = 42
  /\ generated[1].coord = [cx |-> 0, cy |-> 0, cz |-> 0]
  /\ generated[1].by = "generateChunk"
  /\ Made.coord = [cx |-> 0, cy |-> 0, cz |-> 0]
  /\ Made.by = "TerrainGenerator"

\* the five points 0.1 below the feet: the centre and the midpoints of the
\* four vertical faces of a box 0.6 wide
FiveSamples(b) ==
  {<<b.pos[1] + dx, b.pos[2] - Tenths(1), b.pos[3] + dz>> :
     <<dx, dz>> \in {<<0, 0>>, <<Tenths(3), 0>>, <<-Tenths(3), 0>>,
                     <<0, Tenths(3)>>, <<0, -Tenths(3)>>}}

\* C27: isGrounded returns true exactly when at least one of the five
\* sample points 0.1 below the agent's feet lies inside a solid block
C27_FiveSamples ==
  phys.impl = "server" =>
    \A r \in Roundings :
      isOnGround(phys, r)
        <=> \E q \in FiveSamples(phys) : isSolid(phys.scene, q, <<FALSE, FALSE, FALSE>>, r)

-----------------------------------------------------------------------------
(* C31..C34: what a block operation may overwrite *)

\* C31: a place action with a buildable block id that targets a position
\* whose current block is not solid (air, water, a non-solid decoration)
\* succeeds in both modes, and the chunk store then holds the requested id
\* at that position: the HTTP place is taken on and its save answers 200
\* with the id stored, the WebSocket place_block writes the id
C31_PlaceOnNonSolidSucceeds ==
  [][ /\ \A c \in Clients :
           ( /\ StartsAt(c, "place")
             /\ ~BadBlockType(req'[c].blockType)
             /\ StoredBlock(db, ReqPos(req'[c])) \notin SolidIds )
             => req'[c].pc = "loaded"
      /\ \A c \in Clients :
           (req[c].type = "place" /\ req[c].pc = "loaded" /\ req'[c].pc = "done")
             => /\ req'[c].status = 200
                /\ StoredBlock(db', ReqPos(req[c])) = req[c].blockType.v
      /\ (Handles("place_block") /\ last'.blockId \in BuildableIds
            /\ last'.before \notin SolidIds)
           => /\ last'.ret = TRUE
              /\ LoadedBlock(chunks', last'.pos) = last'.blockId
    ]_vars

\* c places a solid block, with well-formed coordinates
PlacesSolid(c) ==
  /\ req[c].type = "place"
  /\ GoodCoords(req[c]) /\ ~BadBlockType(req[c].blockType)
  /\ req[c].blockType.v \in SolidIds

\* C32: if two discrete-mode place requests of solid blocks for the same
\* initially non-solid position run concurrently, at most one of them
\* returns success
C32_OneConcurrentPlaceWins ==
  \A c1, c2 \in Clients :
    ( /\ c1 # c2
      /\ PlacesSolid(c1) /\ PlacesSolid(c2)
      /\ ReqPos(req[c1]) = ReqPos(req[c2])
      /\ StoredBlock(<<>>, ReqPos(req[c1])) \notin SolidIds
      /\ Concurrent(c1, c2) )
    => ~(Succeeded(req[c1]) /\ Succeeded(req[c2]))

\* position p lies in the region the scan of c was answered for
InRegion(c, p) ==
  p[1] \in req[c].scan.xs /\ p[2] \in req[c].scan.ys /\ p[3] \in req[c].scan.zs

\* C33: for every accepted /agent/scan request, the result contains every
\* non-air block whose position lies in the requested region, including
\* regions that straddle a chunk boundary on two or more axes
C33_ScanFindsEveryBlock ==
  \A c \in Clients :
    (ScanDone(c) /\ req[c].status = 200) =>
      \A p \in Window :
        (InRegion(c, p) /\ StoredBlock(db, p) # AIR)
          => \E f \in req[c].scan.found :
               f.pos = p /\ f.blockType = StoredBlock(db, p)

\* C34: across any sequence of agent block operations in either mode
\* (place, break, place_block, break_block, game.placeBlock and
\* game.breakBlock), a position that holds bedrock continues to hold
\* bedrock
C34_BedrockStays ==
  [][\A p \in Window :
       /\ (mode = "discrete" /\ StoredBlock(db, p) = BEDROCK)
            => StoredBlock(db', p) = BEDROCK
       /\ ( /\ mode = "continuous"
            /\ chunkKey(PosChunk(p)) \in DOMAIN chunks
            /\ LoadedBlock(chunks, p) = BEDROCK )
            => LoadedBlock(chunks', p) = BEDROCK
    ]_vars

-----------------------------------------------------------------------------
(* C36: a tick never moves an agent into a block *)

\* the position of the agent is in a solid block
InsideSolid(b, r) == isSolid(b.scene, b.pos, b.sure, r)

\* C36: after every tick, no agent's position lies inside a solid voxel,
\* provided it did not lie inside one before the tick (the blocks of a scene
\* do not change)
C36_TickKeepsOutOfSolid ==
  [][\A r \in Roundings :
       (phys.impl = "server" /\ phys' = update(phys, r) /\ ~InsideSolid(phys, r))
         => ~InsideSolid(phys', r)]_vars

\* the agent by the ledge has walked over the block beside it while falling,
\* and a tick has stopped its fall there
C36_Witness ==
  /\ phys.impl = "server" /\ phys.scene = "ledge" /\ phys.last = "update"
  /\ phys.pos[1] >= PosUnit
  /\ phys.pos[2] = 65 * PosUnit
  /\ phys.vel[2] = 0

-----------------------------------------------------------------------------
(* C37: a verified agent joins as itself *)

\* C37: when a client sends an auth message carrying the secret token of a
\* verified agent, the agent created for that connection carries the
\* verified agent's id and username rather than a guest identity
C37_VerifiedJoinsAsItself ==
  \A c \in Clients :
    (sim.clients[c].joined /\ sim.clients[c].held # NoDbAgent)
      => /\ sim.clients[c].id = sim.clients[c].held.id
         /\ sim.clients[c].name = sim.clients[c].held.username

-----------------------------------------------------------------------------
(* C38: usernames differ ignoring case *)

\* C38: under any sequence of registerDirect, startSignup and
\* verifyAndCreate calls, no two agent records ever have usernames that are
\* equal ignoring case
C38_UsernamesDifferIgnoringCase ==
  \A a, b \in sim.agents :
    a.id # b.id => toLowerCase(a.username) # toLowerCase(b.username)

-----------------------------------------------------------------------------
(* C39, C40: votes and the status of a proposal *)

\* the agent ids of both vote lists of a proposal, one after the other
Ballots(p) == p.votesFor \o p.votesAgainst

\* no agent id is twice in the list
OncePerAgent(list) == \A i, j \in 1..Len(list) : list[i] = list[j] => i = j

\* C39: for every proposal, under any sequence of vote calls, each agent id
\* appears at most once across the 'for' and 'against' vote lists combined
C39_OneVotePerAgent ==
  /\ \A i \in DOMAIN sim.proposals : OncePerAgent(Ballots(sim.proposals[i]))
  /\ \A i \in DOMAIN sim.server : OncePerAgent(Ballots(sim.server[i]))

\* an agent that has voted for a proposal has voted again, and the second
\* vote was refused
C39_Witness ==
  /\ sim.last = "vote throws"
  /\ \E i \in DOMAIN sim.proposals :
       /\ sim.proposals[i].status = "voting" /\ ~sim.proposals[i].ended
       /\ Len(Ballots(sim.proposals[i])) = Cardinality(AgentIds)

\* the changes of status that are allowed
StatusSteps ==
  {<<"voting", "approved">>, <<"voting", "rejected">>, <<"approved", "merged">>}

\* C40: a proposal's status changes only along voting -> approved,
\* voting -> rejected and approved -> merged: no operation ever returns a
\* proposal to 'voting' or changes the status of a rejected or merged one
C40_StatusOnlyForward ==
  [][\A i \in DOMAIN sim.proposals :
       /\ i \in DOMAIN sim'.proposals
       /\ sim'.proposals[i].status # sim.proposals[i].status
            => <<sim.proposals[i].status, sim'.proposals[i].status>> \in StatusSteps]_vars

\* a proposal is merged, and an operation on it has been refused since
C40_Witness ==
  /\ sim.last = "throws"
  /\ \E i \in DOMAIN sim.proposals :
       /\ sim.proposals[i].status = "merged"
       /\ Len(sim.proposals[i].votesFor) = Cardinality(AgentIds)

-----------------------------------------------------------------------------
(* C35: the server stopped *)

\* C35: once GameServer.stop() has returned, update() is never executed
\* again and no agent position changes, even if start() had been called
\* more than once before
C35_StoppedStaysStopped ==
  [][("stopped" \in DOMAIN sim /\ sim.stopped)
       => (sim'.tick = sim.tick /\ phys'.pos = phys.pos)]_vars

-----------------------------------------------------------------------------
(* C20: the tick loop survives every message *)

\* every agent has been moved by every tick since it joined
AllAdvanced ==
  \A c \in Clients : sim.agents[c].joined => sim.agents[c].moved = sim.tick

\* a message has been handled, by handleMessage or by the catch
Handled == sim.outcome # "none"

-----------------------------------------------------------------------------
(* C19: malformed coordinates *)

\* the coordinates are missing, not numbers or not integers
Malformed(pos) == BadCoords(pos) \/ \E i \in 1..3 : IsHalf(pos[i])

\* the request of r carries malformed coordinates
MalformedRequest(r) ==
  IF r.type \in {"place", "break"} THEN Malformed(r.pos)
  ELSE r.type \in {"batch_place", "batch_break"}
       /\ \E i \in 1..Len(r.body.blocks) : Malformed(r.body.blocks[i].pos)

\* every position reads as the generated terrain does
TerrainUntouched == \A p \in Window : StoredBlock(db, p) = StoredBlock(<<>>, p)

\* C19: a discrete-mode place, break or batch request whose coordinates are
\* malformed (missing, non-numeric or not integer-valued) is answered with
\* an error, never with a success response, and no block changes: where
\* only such requests are made, every answer is an error and every position
\* keeps its generated block
C19_MalformedRejected ==
  /\ \A c \in Clients :
       (req[c].pc = "done" /\ MalformedRequest(req[c]))
         => (req[c].status # 200 /\ ResponseFields(req[c]) = {"error"})
  /\ ((\A c \in Clients : req[c].pc # "idle" => MalformedRequest(req[c]))
        => TerrainUntouched)

====
